---- MODULE Spec2Model ----
(***************************************************************************)
(* Indexing-and-aggregation pipeline of stats-iplaycornhole.               *)
(*                                                                         *)
(* The module holds one state machine per component of the pipeline; the   *)
(* components share the relational store.  Each specification (SpecEvent, *)
(* SpecCache, ...) runs the actions of one component and leaves the state *)
(* of the others unchanged.                                                *)
(*                                                                         *)
(* A database table is a bag of rows: a uniqueness constraint of           *)
(* database.py is an explicit check that raises (IntegrityError), so that  *)
(* "no duplicate row" is a property of the code and not of the encoding.   *)
(***************************************************************************)
EXTENDS Integers, Sequences, FiniteSets, Bags, TLC

\* ------------------------------------------------------------------ bounds
MaxEvent == 1

EventIds == 1..MaxEvent

\* ids the cached fetch operations are called with, fetch calls of a run
MaxId == 1

MaxFetch == 2

UrlIds == 1..MaxId

\* brackets of one event group, stored games, caching-pass store calls
MaxBracket == 3

MaxGame == 1

MaxStore == 2

BracketIds == 1..MaxBracket

GameRowIds == 1..MaxGame

\* matches of a bracket, positions of a bracket's bracketDetails list
MaxMatch == 3

MaxDetails == 2

MatchIds == 1..MaxMatch

\* weeks the clock goes through
MaxWeek == 2

\* Python's None, for a value that is a string
None == "None"

\* Optional values of the other types: None is Absent, a value v is Some(v)
Absent == [some |-> FALSE]

Some(v) == [some |-> TRUE, v |-> v]

Opt(S) == {Absent} \cup {Some(v) : v \in S}

VARIABLES
    eventTbl,      \* events (database.py Event)
    pesTbl,        \* player_event_stats (PlayerEventStats)
    matchupTbl,    \* event_matchups (EventMatchup)
    standingTbl,   \* event_standings (EventStanding)
    lastCall,      \* the last index_event call: its arguments and outcome
    cacheTbl,      \* acl_api_cache (ACLAPICache)
    fetchLog,      \* the cached fetch calls made so far, in order
    gameTbl,       \* event_games (EventGame)
    aggTbl,        \* event_aggregated_stats (EventAggregatedStats)
    nBrackets,     \* brackets 1..nBrackets of the group have an Event row
    nStores,       \* store_aggregated_stats calls made
    lastRead,      \* the last get_aggregated_stats call and what it returned
    matchTbl,      \* event_matches (EventMatch)
    lastRun,       \* the last game-indexing run of an event and how it ended
    fetch_status,  \* main.py fetch_status: the season's "status", None if no entry
    fetch_control, \* main.py fetch_control: the season's signal, None if no entry
    playerTbl,     \* players (database.py Player), committed rows
    week,          \* datetime.utcnow(), as the number of the current week
    task,          \* the update_player_data tasks: position and local variables
    stopAsked,     \* the tasks and runs that were running when stop was last requested
    event_indexing_status, \* main.py event_indexing_status of the season
    game_indexing_status,  \* main.py game_indexing_status of the season
    eventRun,      \* the index_season_events_with_status run: position and locals
    gameRun,       \* the index_season_games_with_status run: position and locals
    fetcherLog,    \* the calls of fetcher.py functions made so far, in order
    cache_indexing_status, \* acl_cache_indexer.py cache_indexing_status["players_<bucket>"]
    playerDataRun, \* the index_all_player_data_for_season run: position and locals
    commitStep,    \* a commit step of update_player_data with its retries
    matchProbe,    \* the last probing of the games of one match: what it asked for
    eventsRun,     \* the index_all_events_for_season run: position and locals
    discovered,    \* the last entry of an events list a discovery path has looked at
    recordCall,    \* the last index_event call seen record by record: payloads and rows
    rankCall,      \* the aggregated players of a group and the last ranks computed
    tally,         \* the last game tallied and the wins and losses it credited
    pairing        \* the standings and games of a doubles bracket and the partners found

eventVars == <<eventTbl, pesTbl, matchupTbl, standingTbl, lastCall>>

cacheVars == <<cacheTbl, fetchLog>>

aggVars == <<gameTbl, aggTbl, nBrackets, nStores, lastRead>>

gameVars == <<matchTbl, lastRun>>

fetchVars == <<fetch_status, fetch_control, playerTbl, week, task, stopAsked>>

seasonVars == <<event_indexing_status, game_indexing_status, eventRun, gameRun>>

fetcherVars == <<fetcherLog>>

\* the components added after the season runs
cacheRunVars == <<cache_indexing_status, playerDataRun>>

commitVars == <<commitStep>>

probeVars == <<matchProbe>>

eventsRunVars == <<eventsRun>>

filterVars == <<discovered>>

recordVars == <<recordCall>>

rankingVars == <<rankCall>>

tallyVars == <<tally>>

partnerVars == <<pairing>>

statsVars == <<rankingVars, tallyVars, partnerVars>>

laterVars == <<fetcherVars, cacheRunVars, commitVars, probeVars, eventsRunVars,
               filterVars, recordVars,
              statsVars>>

vars == <<eventVars, cacheVars, aggVars, gameVars, fetchVars, seasonVars,
          laterVars>>

\* what the actions of one component leave alone
notEvent == <<cacheVars, aggVars, gameVars, fetchVars, seasonVars, laterVars>>

notCache == <<eventVars, aggVars, gameVars, fetchVars, seasonVars, laterVars>>

notAgg == <<eventVars, cacheVars, gameVars, fetchVars, seasonVars, laterVars>>

notFetch == <<eventVars, cacheVars, aggVars, gameVars, seasonVars, laterVars>>

notSeason == <<eventVars, cacheVars, aggVars, gameVars, fetchVars, laterVars>>

\* game indexing writes events, event_games and event_matches
notGames == <<pesTbl, matchupTbl, standingTbl, lastCall, cacheVars,
              aggTbl, nBrackets, nStores, lastRead, fetchVars, seasonVars,
              laterVars>>

\* the store, the player fetch and the season runs
notFetcher == <<eventVars, cacheVars, aggVars, gameVars, fetchVars, seasonVars,
               cacheRunVars, commitVars, probeVars, eventsRunVars,
              filterVars, recordVars,
              statsVars>>

notCommit == <<eventVars, cacheVars, aggVars, gameVars, fetchVars, seasonVars,
              fetcherVars, cacheRunVars, probeVars, eventsRunVars,
              filterVars, recordVars,
              statsVars>>

\* the caching pass writes the response cache
notCacheRun == <<eventVars, fetchLog, aggVars, gameVars, fetchVars, seasonVars,
                fetcherVars, commitVars, probeVars, eventsRunVars,
              filterVars, recordVars,
              statsVars>>

\* the caching pass over the events writes the response cache
notEventsRun == <<eventVars, fetchLog, aggVars, gameVars, fetchVars, seasonVars,
                 fetcherVars, cacheRunVars, commitVars, probeVars,
              filterVars, recordVars,
              statsVars>>

\* looking at an entry of an events list writes nothing else
notFilter == <<eventVars, cacheVars, aggVars, gameVars, fetchVars, seasonVars,
              fetcherVars, cacheRunVars, commitVars, probeVars, eventsRunVars,
              recordVars,
              statsVars>>

\* the record-level view of index_event keeps to itself
notRecords == <<eventVars, cacheVars, aggVars, gameVars, fetchVars, seasonVars,
               fetcherVars, cacheRunVars, commitVars, probeVars, eventsRunVars,
               filterVars, statsVars>>

\* the aggregation over stored games and standings writes nothing
notStats == <<eventVars, cacheVars, aggVars, gameVars, fetchVars, seasonVars,
             fetcherVars, cacheRunVars, commitVars, probeVars, eventsRunVars,
             filterVars, recordVars>>

\* probing the games of a match writes event_games and event_matches, or the
\* response cache
notProbe == <<eventVars, fetchLog, aggTbl, nBrackets, nStores, lastRead, lastRun,
             fetchVars, seasonVars, fetcherVars, cacheRunVars, commitVars,
             eventsRunVars, filterVars, recordVars,
              statsVars>>

\* ------------------------------------------------------------ bag helpers
Rows(b) == BagToSet(b)

\* table b without the rows of event e
DeleteEventRows(b, e) ==
    [r \in {x \in DOMAIN b : x.event_id # e} |-> b[r]]

AddRow(b, r) == b (+) SetToBag({r})

AddRows(b, rs) == b (+) SetToBag(rs)

\* =========================================================================
\* EventIndexer  (src/event_indexer.py)
\* =========================================================================

\* Upstream payloads.  The fetcher functions return None for any failure
\* (HTTP error, network error, status != OK): fetcher.py:164-227.
InfoPayloads == {"v1", "v2"}

\* event-player-stats payload: the players it lists
StatsPayloads == {{"p1"}}

\* event-standings payload: the players it lists; fldEventRank of player p
StandingsPayloads == {{"p1"}}

StandingRank(p) == 1

\* bracket payload: the matchups of its rounds, and the match ids of the
\* bracketDetails that have game results
BracketPayloads == {[matchups |-> {"m1"}, details |-> <<>>]}

Upstreams ==
    [info : InfoPayloads \cup {None},
     stats : Opt(StatsPayloads),
     standings1 : Opt(StandingsPayloads),
     bracket : Opt(BracketPayloads),
     standings2 : Opt(StandingsPayloads)]

\* The session's view of the four tables.
Db == [ev |-> eventTbl, pes |-> pesTbl, mu |-> matchupTbl, st |-> standingTbl]

EventRow(e, info, gameData) ==
    [event_id |-> e, info |-> info, game_data |-> gameData,
     games_indexed_count |-> 0, games_total_count |-> 0,
     games_fully_indexed |-> FALSE]

\* A mutation of is_event_indexed: the existence check always misses.
is_event_indexed_never(ev, e) == FALSE

is_event_indexed(ev, e) == \E r \in Rows(ev) : r.event_id = e

\* events.event_id is unique: an insert of event e would violate the constraint
EventIdTaken(ev, e) == \E r \in Rows(ev) : r.event_id = e

\* rank of a PlayerEventStats row: from the standings payload when the player
\* is listed there, else the None parse_player_event_stats leaves
PesRank(standings, p) ==
    IF standings.some /\ p \in standings.v THEN Some(StandingRank(p)) ELSE Absent

PesRows(e, up) ==
    IF ~up.stats.some THEN {}
    ELSE {[event_id |-> e, player_id |-> p, rank |-> PesRank(up.standings1, p)] :
             p \in up.stats.v}

MatchupRows(e, up) ==
    IF ~up.bracket.some THEN {}
    ELSE {[event_id |-> e, matchup |-> m] : m \in up.bracket.v.matchups}

StandingRows(e, up) ==
    IF ~up.standings2.some THEN {}
    ELSE {[event_id |-> e, player_id |-> p, final_rank |-> StandingRank(p)] :
             p \in up.standings2.v}

\* uq_event_player, uq_event_standing: a row to insert collides with a stored one
KeyClash(tbl, rows) ==
    \E r \in rows : \E s \in Rows(tbl) :
        s.event_id = r.event_id /\ s.player_id = r.player_id

\* index_event(event_id, bucket_id, db, force_reindex), with the upstream
\* responses `up` its fetches receive.  session: what the session holds when the
\* call returns (flushed, maybe not committed); committed: what is in the
\* database; fetches: the upstream requests made.
index_event(db, e, force, up) ==
    IF is_event_indexed(db.ev, e) /\ ~force
    THEN [result |-> TRUE, session |-> db, committed |-> db, fetches |-> 0]
    ELSE
      LET db1 == IF force
                 THEN [db EXCEPT !.pes = DeleteEventRows(db.pes, e)]
                 ELSE db
      IN
      IF up.info = None
      THEN \* return False: no rollback, the flushed deletes stay in the session
           [result |-> FALSE, session |-> db1, committed |-> db, fetches |-> 1]
      ELSE IF EventIdTaken(db1.ev, e)
      THEN \* db.add(event); flush: events.event_id is unique -> rollback
           [result |-> FALSE, session |-> db, committed |-> db, fetches |-> 1]
      ELSE
        LET gd  == up.bracket
            db2 == [db1 EXCEPT !.ev = AddRow(db1.ev, EventRow(e, up.info, gd))]
            clash == KeyClash(db2.pes, PesRows(e, up))
                     \/ KeyClash(db2.st, StandingRows(e, up))
            db3 == [db2 EXCEPT !.pes = AddRows(db2.pes, PesRows(e, up)),
                               !.mu = AddRows(db2.mu, MatchupRows(e, up)),
                               !.st = AddRows(db2.st, StandingRows(e, up))]
        IN IF clash
           THEN [result |-> FALSE, session |-> db, committed |-> db, fetches |-> 5]
           ELSE [result |-> TRUE, session |-> db3, committed |-> db3, fetches |-> 5]

Call(op, e, force, up, out) ==
    [op |-> op, event |-> e, force |-> force,
     wasIndexed |-> EventIdTaken(eventTbl, e),
     infoOK |-> up.info # None,
     upOK |-> /\ up.info # None /\ up.stats.some /\ up.standings1.some
              /\ up.bracket.some /\ up.standings2.some,
     result |-> out.result, fetches |-> out.fetches]

SetDb(db) ==
    /\ eventTbl' = db.ev
    /\ pesTbl' = db.pes
    /\ matchupTbl' = db.mu
    /\ standingTbl' = db.st

\* POST /api/local/index-event/{event_id}: index_event(force_reindex=False),
\* then the caller's commit.
IndexSingleEvent(e) ==
    \E up \in Upstreams :
        LET out == index_event(Db, e, FALSE, up)
        IN /\ SetDb(out.session)
           /\ lastCall' = Call("index_event", e, FALSE, up, out)
           /\ UNCHANGED notEvent

\* reindex_event's task: index_event(force_reindex=True), then db_task.commit(),
\* which commits whatever the session still holds.
ReindexEvent(e) ==
    \E up \in Upstreams :
        LET out == index_event(Db, e, TRUE, up)
        IN /\ SetDb(out.session)
           /\ lastCall' = Call("index_event", e, TRUE, up, out)
           /\ UNCHANGED notEvent

NoCall == [op |-> "none", event |-> 0, force |-> FALSE, wasIndexed |-> FALSE,
           infoOK |-> FALSE, upOK |-> FALSE, result |-> FALSE, fetches |-> 0]

InitEvent ==
    /\ eventTbl = EmptyBag
    /\ pesTbl = EmptyBag
    /\ matchupTbl = EmptyBag
    /\ standingTbl = EmptyBag
    /\ lastCall = NoCall

NextEvent ==
    \E e \in EventIds : IndexSingleEvent(e) \/ ReindexEvent(e)

\* =========================================================================
\* Response cache  (src/acl_cache_indexer.py)
\* =========================================================================

\* The eight cached fetch operations.
CacheOps == {"standings", "player_stats", "player_events", "event_info",
             "event_player_stats", "event_standings", "bracket_data",
             "match_stats"}

\* The URL an operation builds from its arguments (fetcher.py URL templates):
\* distinct operations and distinct ids give distinct URLs.
Url(op, id) == <<op, id>>

Urls == {Url(op, id) : op \in CacheOps, id \in UrlIds}

\* sha256 of the URL, taken to be free of collisions
get_url_hash(url) == <<"sha256", url>>

\* JSON bodies: {"status": "OK", "data": [...]}, {"status": "OK", "data": []},
\* {"status": "ERROR"} and the empty object {}
OkRows == [status |-> "OK", data |-> "rows"]

OkEmpty == [status |-> "OK", data |-> "empty"]

ErrorBody == [status |-> "ERROR", data |-> "empty"]

EmptyJson == [status |-> None, data |-> "empty"]

Bodies == {OkRows, OkEmpty, ErrorBody, EmptyJson}

\* Python truthiness of a JSON object: only {} is false
Truthy(json) == json # EmptyJson

\* What the upstream request gives: a 200 with a body, an HTTP error status,
\* or no response at all (code 0: timeout, connection error)
Responses ==
    {[code |-> 200, body |-> b] : b \in Bodies}
    \cup {[code |-> c, body |-> EmptyJson] : c \in {0, 404, 409, 500}}

\* A mutation of get_cached_response: the lookup never finds the entry.
get_cached_response_miss(cache, url) == Absent

get_cached_response(cache, url) ==
    IF \E r \in Rows(cache) : r.url_hash = get_url_hash(url)
    THEN Some((CHOOSE r \in Rows(cache) : r.url_hash = get_url_hash(url)).response_json)
    ELSE Absent

\* datetime.utcnow() at a put: the clock moves with every fetch call made
utcnow == Len(fetchLog) + 1

\* A mutation of cache_response: every put adds a row.
cache_response_add(cache, url, json, http_status) ==
    AddRow(cache, [url |-> url, url_hash |-> get_url_hash(url),
                   response_json |-> json, http_status |-> http_status,
                   fetched_at |-> utcnow])

\* update response_json, http_status and fetched_at of the entry of the URL,
\* or add an entry
cache_response(cache, url, json, http_status) ==
    LET h == get_url_hash(url)
        cached == CHOOSE r \in Rows(cache) : r.url_hash = h
    IN IF \E r \in Rows(cache) : r.url_hash = h
       THEN [r \in {x \in DOMAIN cache : x.url_hash # h} |-> cache[r]]
                (+) SetToBag({[cached EXCEPT !.response_json = json,
                                             !.http_status = http_status,
                                             !.fetched_at = utcnow]})
       ELSE AddRow(cache, [url |-> url, url_hash |-> h,
                           response_json |-> json, http_status |-> http_status,
                           fetched_at |-> utcnow])

\* what a fetch operation returns: the whole response, its data field, None,
\* or an exception
Ret(kind, json) == [kind |-> kind, json |-> json]

RetNone == Ret("none", EmptyJson)

Raises == Ret("raise", EmptyJson)

\* the three ways a fetch operation ends
CacheHit(cache, ret) == [cache |-> cache, requested |-> FALSE, ret |-> ret]

NotStored(cache, ret) == [cache |-> cache, requested |-> TRUE, ret |-> ret]

Stored(cache, url, resp, ret) ==
    [cache |-> cache_response(cache, url, resp.body, resp.code),
     requested |-> TRUE, ret |-> ret]

\* `cached = await get_cached_response(url, db)` under `if use_cache:`
Cached(cache, url, use_cache) ==
    IF use_cache THEN get_cached_response(cache, url) ELSE Absent

\* `if cached:`
IsHit(cached) == cached.some /\ Truthy(cached.v)

index_standings(cache, url, use_cache, resp) ==
    LET cached == Cached(cache, url, use_cache)
    IN IF IsHit(cached) THEN CacheHit(cache, Ret("response", cached.v))
       ELSE IF resp.code # 200 THEN NotStored(cache, Raises)
       ELSE Stored(cache, url, resp, Ret("response", resp.body))

index_player_stats(cache, url, use_cache, resp) ==
    LET cached == Cached(cache, url, use_cache)
    IN IF IsHit(cached) THEN CacheHit(cache, Ret("response", cached.v))
       ELSE IF resp.code \in {0, 404} THEN NotStored(cache, RetNone)
       ELSE IF resp.code # 200 THEN NotStored(cache, Raises)
       ELSE IF resp.body.status # "OK" THEN NotStored(cache, RetNone)
       ELSE IF resp.body.data = "empty"
            THEN NotStored(cache, Ret("data", resp.body))
            ELSE Stored(cache, url, resp, Ret("data", resp.body))

\* The body shared by index_player_events_list, index_event_info,
\* index_event_player_stats and index_event_standings: they differ in the URL
\* and the endpoint type only.
IndexDataEndpoint(cache, url, use_cache, resp) ==
    LET cached == Cached(cache, url, use_cache)
    IN IF IsHit(cached)
       THEN CacheHit(cache, IF cached.v.status = "OK"
                            THEN Ret("data", cached.v) ELSE RetNone)
       ELSE IF resp.code \in {0, 404} THEN NotStored(cache, RetNone)
       ELSE IF resp.code # 200 THEN NotStored(cache, Raises)
       ELSE Stored(cache, url, resp,
                   IF resp.body.status = "OK"
                   THEN Ret("data", resp.body) ELSE RetNone)

index_player_events_list(cache, url, use_cache, resp) ==
    IndexDataEndpoint(cache, url, use_cache, resp)

index_event_info(cache, url, use_cache, resp) ==
    IndexDataEndpoint(cache, url, use_cache, resp)

index_event_player_stats(cache, url, use_cache, resp) ==
    IndexDataEndpoint(cache, url, use_cache, resp)

index_event_standings(cache, url, use_cache, resp) ==
    IndexDataEndpoint(cache, url, use_cache, resp)

index_bracket_data(cache, url, use_cache, resp) ==
    LET cached == Cached(cache, url, use_cache)
    IN IF IsHit(cached) THEN CacheHit(cache, Ret("response", cached.v))
       ELSE IF resp.code \in {0, 404} THEN NotStored(cache, RetNone)
       ELSE IF resp.code # 200 THEN NotStored(cache, Raises)
       ELSE Stored(cache, url, resp,
                   IF resp.body.status = "OK"
                   THEN Ret("response", resp.body) ELSE RetNone)

index_match_stats(cache, url, use_cache, resp) ==
    LET cached == Cached(cache, url, use_cache)
    IN IF IsHit(cached) THEN CacheHit(cache, Ret("response", cached.v))
       ELSE IF resp.code \in {0, 404, 409} THEN NotStored(cache, RetNone)
       ELSE IF resp.code # 200 THEN NotStored(cache, Raises)
       ELSE IF resp.body.status = "ERROR" THEN NotStored(cache, RetNone)
       ELSE Stored(cache, url, resp, Ret("response", resp.body))

\* One call of a fetch operation for `url`, every caller passing use_cache=True
\* (acl_cache_indexer.py:508-798); the upstream answers `resp` if it is asked.
Fetched(url, out) ==
    /\ Len(fetchLog) < MaxFetch
    /\ cacheTbl' = out.cache
    /\ fetchLog' = Append(fetchLog, [url |-> url, requested |-> out.requested,
                                     ret |-> out.ret])
    /\ UNCHANGED notCache

FetchStandings(id) ==
    \E resp \in Responses :
        LET url == Url("standings", id)
        IN Fetched(url, index_standings(cacheTbl, url, TRUE, resp))

FetchPlayerStats(id) ==
    \E resp \in Responses :
        LET url == Url("player_stats", id)
        IN Fetched(url, index_player_stats(cacheTbl, url, TRUE, resp))

FetchPlayerEventsList(id) ==
    \E resp \in Responses :
        LET url == Url("player_events", id)
        IN Fetched(url, index_player_events_list(cacheTbl, url, TRUE, resp))

FetchEventInfo(id) ==
    \E resp \in Responses :
        LET url == Url("event_info", id)
        IN Fetched(url, index_event_info(cacheTbl, url, TRUE, resp))

FetchEventPlayerStats(id) ==
    \E resp \in Responses :
        LET url == Url("event_player_stats", id)
        IN Fetched(url, index_event_player_stats(cacheTbl, url, TRUE, resp))

FetchEventStandings(id) ==
    \E resp \in Responses :
        LET url == Url("event_standings", id)
        IN Fetched(url, index_event_standings(cacheTbl, url, TRUE, resp))

FetchBracketData(id) ==
    \E resp \in Responses :
        LET url == Url("bracket_data", id)
        IN Fetched(url, index_bracket_data(cacheTbl, url, TRUE, resp))

FetchMatchStats(id) ==
    \E resp \in Responses :
        LET url == Url("match_stats", id)
        IN Fetched(url, index_match_stats(cacheTbl, url, TRUE, resp))

InitCache ==
    /\ cacheTbl = EmptyBag
    /\ fetchLog = <<>>

NextCache ==
    \E id \in UrlIds :
        \/ FetchStandings(id)
        \/ FetchPlayerStats(id)
        \/ FetchPlayerEventsList(id)
        \/ FetchEventInfo(id)
        \/ FetchEventPlayerStats(id)
        \/ FetchEventStandings(id)
        \/ FetchBracketData(id)
        \/ FetchMatchStats(id)

\* --------------------------------------------------- Response cache: properties
\* the cache entries stored for a URL
Entries(cache, url) ==
    {r \in Rows(cache) : r.url_hash = get_url_hash(url)}

EntryCount(cache, url) ==
    LET es == Entries(cache, url)
    IN IF es = {} THEN 0
       ELSE CopiesIn(CHOOSE r \in es : TRUE, cache) + Cardinality(es) - 1

\* the fetch the step has just made
ThisFetch == fetchLog'[Len(fetchLog')]

\* fetch k of the log is the request that stored what fetch j was served
\* from: the last request of j's URL before j
StoredFor(k, j) ==
    /\ k < j
    /\ fetchLog[k].url = fetchLog[j].url
    /\ fetchLog[k].requested
    /\ \A i \in (k + 1)..j : fetchLog[i].url = fetchLog[j].url
                                => ~fetchLog[i].requested

\* C39: a fetch served from the cache returns what the fetch that requested
\* and stored the entry returned: the same shape (whole response or data
\* field) and the same present/absent outcome.
C39_HitReturnsWhatTheMissReturned ==
    \A j \in DOMAIN fetchLog : \A k \in DOMAIN fetchLog :
        (~fetchLog[j].requested /\ StoredFor(k, j))
            => fetchLog[j].ret = fetchLog[k].ret

C20_PutIsUpsert ==
    [][LET u == ThisFetch.url
           old == CHOOSE r \in Entries(cacheTbl, u) : TRUE
       IN /\ \A v \in Urls : /\ EntryCount(cacheTbl', v) <= 1
                              /\ EntryCount(cacheTbl, v) <= EntryCount(cacheTbl', v)
          /\ (cacheTbl' # cacheTbl /\ Entries(cacheTbl, u) # {})
                => /\ BagCardinality(cacheTbl') = BagCardinality(cacheTbl)
                   /\ Rows(cacheTbl') \ Entries(cacheTbl', u)
                         = Rows(cacheTbl) \ Entries(cacheTbl, u)
                   /\ \E json \in Bodies, code \in {r.code : r \in Responses} :
                         Entries(cacheTbl', u)
                            = {[old EXCEPT !.response_json = json,
                                           !.http_status = code,
                                           !.fetched_at = Len(fetchLog')]}]_cacheVars

\* two puts for one URL: the first stored {}, which a later fetch does not
\* take for a hit, and the second has overwritten it
C20_Witness ==
    /\ Len(fetchLog) = 2
    /\ fetchLog[1].url = fetchLog[2].url
    /\ fetchLog[1].requested /\ fetchLog[1].ret = Ret("response", EmptyJson)
    /\ fetchLog[2].requested /\ fetchLog[2].ret = Ret("response", OkRows)
    /\ \E r \in Rows(cacheTbl) :
          /\ Entries(cacheTbl, fetchLog[2].url) = {r}
          /\ r.response_json = OkRows
          /\ r.fetched_at = 2
    /\ EntryCount(cacheTbl, fetchLog[2].url) = 1

\* ------------------------------------------------- EventIndexer: properties
eventTables == <<eventTbl, pesTbl, matchupTbl, standingTbl>>

\* C1: index_event on an event that already has an Event row, without
\* force_reindex, returns success, makes no upstream request and leaves every
\* Event, PlayerEventStats, EventStanding and EventMatchup row as it was.
C1_IndexedEventIsSkipped ==
    [][(lastCall'.wasIndexed /\ ~lastCall'.force)
          => /\ lastCall'.result
             /\ lastCall'.fetches = 0
             /\ UNCHANGED eventTables]_vars

\* an index_event call without force_reindex that found the event indexed
C1_Witness ==
    /\ lastCall.op = "index_event"
    /\ lastCall.wasIndexed
    /\ ~lastCall.force
    /\ lastCall.result

\* the upstream resources an index_event call that made n requests has asked
\* fetcher.py for, in order: the event's standings are asked for twice
EventRequests(e, n) ==
    SubSeq(<<Url("event_info", e), Url("event_player_stats", e),
             Url("event_standings", e), Url("bracket_data", e),
             Url("event_standings", e)>>, 1, n)

\* C21: an index_event call asks the upstream for no resource twice (every
\* response being taken through the response cache).
C21_NoResourceRequestedTwice ==
    LET reqs == EventRequests(lastCall.event, lastCall.fetches)
    IN \A i, j \in DOMAIN reqs : reqs[i] = reqs[j] => i = j

\* C8: index_event with force_reindex on an indexed event, every upstream
\* request answered, returns success.
C8_ForceReindexSucceeds ==
    (lastCall.force /\ lastCall.wasIndexed /\ lastCall.upOK) => lastCall.result

\* C33: when index_event with force_reindex returns failure, the
\* PlayerEventStats rows the event had before are still there after the
\* caller's commit
C33_FailedReindexKeepsStats ==
    [][(lastCall'.force /\ ~lastCall'.result) => pesTbl' = pesTbl]_vars

\* the rows of a fully fetched event: player stats, standings and matchups
HasAllRecords(pes, st, mu, e) ==
    /\ \E r \in Rows(pes) : r.event_id = e
    /\ \E r \in Rows(st) : r.event_id = e
    /\ \E r \in Rows(mu) : r.event_id = e

\* C38: an event does not stay Indexed with records missing after a fetch of
\* its player stats, standings or bracket failed: an index_event call without
\* force_reindex that succeeds with every request answered leaves the event
\* with its records
C38_LaterCallStoresMissingRecords ==
    [][(~lastCall'.force /\ lastCall'.result /\ lastCall'.upOK)
          => HasAllRecords(pesTbl', standingTbl', matchupTbl',
                           lastCall'.event)]_vars

\* =========================================================================
\* Aggregated-stats cache  (src/stats_calculator.py, caching pass of main.py)
\* =========================================================================

\* group keys: f"event_{event_id}" of a bracket, and the key
\* f"grouped_{base_event_name}_{bracket_type}" of the group the brackets share
BracketKey(e) == <<"event", e>>

GroupedKey == <<"grouped", 0>>

GroupKeys == {BracketKey(e) : e \in BracketIds} \cup {GroupedKey}

\* select(EventGame.id).where(EventGame.event_id.in_(event_ids))
GameIdsOf(games, event_ids) ==
    {g.id : g \in {r \in Rows(games) : r.event_id \in event_ids}}

RECURSIVE SortedSeq(_)
\* .order_by(EventGame.id)
SortedSeq(S) ==
    IF S = {} THEN <<>>
    ELSE LET lo == CHOOSE x \in S : \A y \in S : x <= y
         IN <<lo>> \o SortedSeq(S \ {lo})

\* md5 of the JSON list of the ids, taken to be free of collisions
games_hash(games, event_ids) ==
    <<"md5", SortedSeq(GameIdsOf(games, event_ids))>>

\* calculate_bracket_stats / calculate_event_aggregated_stats: the result is a
\* function of the games of the brackets, here the games themselves
CalculateStats(games, event_ids) ==
    [player_stats |-> GameIdsOf(games, event_ids),
     total_games |-> Cardinality(GameIdsOf(games, event_ids))]

AggRow(agg, group_key) == CHOOSE r \in Rows(agg) : r.group_key = group_key

HasAgg(agg, group_key) == \E r \in Rows(agg) : r.group_key = group_key

store_aggregated_stats(agg, games, group_key, event_ids, stats_data) ==
    IF HasAgg(agg, group_key)
    THEN \* the update leaves existing.event_ids as it is
         LET existing == AggRow(agg, group_key)
         IN [r \in {x \in DOMAIN agg : x.group_key # group_key} |-> agg[r]]
            (+) SetToBag({[existing EXCEPT
                              !.player_stats = stats_data.player_stats,
                              !.total_games = stats_data.total_games,
                              !.games_hash = games_hash(games, event_ids)]})
    ELSE AddRow(agg, [group_key |-> group_key, event_ids |-> event_ids,
                      player_stats |-> stats_data.player_stats,
                      total_games |-> stats_data.total_games,
                      games_hash |-> games_hash(games, event_ids)])

\* The value a hit returns.
StoredValue(row) ==
    [player_stats |-> row.player_stats, total_games |-> row.total_games,
     event_ids |-> row.event_ids]

\* A mutation of get_aggregated_stats: the entry is returned without the hash check.
get_aggregated_stats_unchecked(agg, games, group_key) ==
    IF ~HasAgg(agg, group_key) THEN Absent
    ELSE Some(StoredValue(AggRow(agg, group_key)))

get_aggregated_stats(agg, games, group_key) ==
    IF ~HasAgg(agg, group_key) THEN Absent
    ELSE LET stats == AggRow(agg, group_key)
         IN IF games_hash(games, stats.event_ids) # stats.games_hash
            THEN Absent
            ELSE Some(StoredValue(stats))

\* the brackets of the group that are indexed
Indexed == 1..nBrackets

\* index_event stores the Event row of the next bracket of the group
BracketIndexed ==
    /\ nBrackets < MaxBracket
    /\ nBrackets' = nBrackets + 1
    /\ UNCHANGED <<gameTbl, aggTbl, nStores, lastRead>>
    /\ UNCHANGED notAgg

\* the id the database gives a new event_games row: above every stored id
NewGameIds(games) ==
    {i \in GameRowIds : \A r \in Rows(games) : r.id < i}

\* index_match_game stores one more game of bracket e
GameIndexed(e) ==
    /\ e \in Indexed
    /\ \E i \in NewGameIds(gameTbl) :
           gameTbl' = AddRow(gameTbl, [id |-> i, event_id |-> e,
                                       match_id |-> i, game_id |-> 1])
    /\ UNCHANGED <<aggTbl, nBrackets, nStores, lastRead>>
    /\ UNCHANGED notAgg

\* a stored game is deleted from event_games (no code of the pipeline does it;
\* the rows can be removed in the database)
GameRemoved(g) ==
    /\ g \in Rows(gameTbl)
    /\ gameTbl' = [r \in DOMAIN gameTbl \ {g} |-> gameTbl[r]]
    /\ UNCHANGED <<aggTbl, nBrackets, nStores, lastRead>>
    /\ UNCHANGED notAgg

\* cache_task, first loop: the stats of one bracket are calculated and stored
CacheBracketStats(e) ==
    /\ e \in Indexed
    /\ nStores < MaxStore
    /\ aggTbl' = store_aggregated_stats(aggTbl, gameTbl, BracketKey(e), {e},
                                        CalculateStats(gameTbl, {e}))
    /\ nStores' = nStores + 1
    /\ UNCHANGED <<gameTbl, nBrackets, lastRead>>
    /\ UNCHANGED notAgg

\* cache_task, second loop: a group of more than one bracket is calculated
\* and stored under the group's key
CacheGroupedStats ==
    /\ nBrackets > 1
    /\ nStores < MaxStore
    /\ aggTbl' = store_aggregated_stats(aggTbl, gameTbl, GroupedKey, Indexed,
                                        CalculateStats(gameTbl, Indexed))
    /\ nStores' = nStores + 1
    /\ UNCHANGED <<gameTbl, nBrackets, lastRead>>
    /\ UNCHANGED notAgg

\* a consumer reads the aggregate of a group key
ReadStats(k) ==
    /\ lastRead' = [key |-> k, ret |-> get_aggregated_stats(aggTbl, gameTbl, k)]
    /\ UNCHANGED <<gameTbl, aggTbl, nBrackets, nStores>>
    /\ UNCHANGED notAgg

NoRead == [key |-> <<"none", 0>>, ret |-> Absent]

InitAgg ==
    /\ gameTbl = EmptyBag
    /\ aggTbl = EmptyBag
    /\ nBrackets = 0
    /\ nStores = 0
    /\ lastRead = NoRead

NextAgg ==
    \/ BracketIndexed
    \/ \E e \in BracketIds : GameIndexed(e)
    \/ \E g \in Rows(gameTbl) : GameRemoved(g)
    \/ \E e \in BracketIds : CacheBracketStats(e)
    \/ CacheGroupedStats
    \/ \E k \in GroupKeys : ReadStats(k)

\* ------------------------------------------- Aggregated-stats cache: properties
\* the games of the brackets recorded in the entry of k: one added or removed
OneGameChanged(k) ==
    LET ids == AggRow(aggTbl, k).event_ids
        before == GameIdsOf(gameTbl, ids)
        after == GameIdsOf(gameTbl', ids)
    IN \/ before \subseteq after /\ Cardinality(after \ before) = 1
       \/ after \subseteq before /\ Cardinality(before \ after) = 1

C10_StoredEntryIsFresh ==
    [][/\ CacheGroupedStats
            => get_aggregated_stats(aggTbl', gameTbl', GroupedKey).some
       /\ \A e \in BracketIds :
            CacheBracketStats(e)
               => get_aggregated_stats(aggTbl', gameTbl', BracketKey(e)).some]_vars

\* =========================================================================
\* Game indexing  (src/game_indexer.py)
\* =========================================================================

\* one position of bracketDetails: the match it names, with or without game
\* results (an unplayed or forfeited match has none)
BracketEntries == [bracketmatchid : MatchIds, gameResults : BOOLEAN]

\* bracketDetails: the list of bracket positions, in the order of the payload;
\* a match may be named by more than one position, which is what the
\* seen_matches set of discover_all_games_from_bracket is there for
BracketDetails == UNION {[1..n -> BracketEntries] : n \in 0..MaxDetails}

GameBracketPayloads ==
    {[matchups |-> {"m1"}, details |-> d] : d \in BracketDetails}

\* the event whose games are indexed: every operation of the game indexer
\* takes one event_id and reads and writes the rows of that event only
GameEventIds == {1}

\* What fetch_match_stats gives for match m, game 1: None, or the payload of
\* the match (the upstream answers a match's URL with that match's ids) with
\* or without the two event_match_details entries of a played game
MatchStatsResponses(m) ==
    Opt({[matchID |-> m, gameID |-> 1, details |-> d] : d \in BOOLEAN})

\* the answers of the upstream to the match-stats requests of one run, one
\* for each match
MatchStatsAnswers ==
    LET kinds == {"none", "no_details", "details"}
        answer(m, k) == IF k = "none" THEN Absent
                        ELSE Some([matchID |-> m, gameID |-> 1,
                                   details |-> (k = "details")])
    IN {[m \in MatchIds |-> answer(m, c[m])] : c \in [MatchIds -> kinds]}

is_match_indexed(matches, e, m) ==
    \E r \in Rows(matches) : r.event_id = e /\ r.match_id = m

is_game_indexed(games, e, m, g) ==
    \E r \in Rows(games) : r.event_id = e /\ r.match_id = m /\ r.game_id = g

parse_match_data(payload, e) == [event_id |-> e, match_id |-> payload.matchID]

\* None when the payload has fewer than two event_match_details entries
parse_game_data(payload, e) ==
    IF ~payload.details THEN Absent
    ELSE Some([event_id |-> e, match_id |-> payload.matchID,
               game_id |-> payload.gameID])

\* the primary key the database gives the next event_games row
NextGameId(games) ==
    IF Rows(games) = {} THEN 1
    ELSE 1 + (CHOOSE i \in {r.id : r \in Rows(games)} :
                 \A r \in Rows(games) : r.id <= i)

EventOf(ev, e) == CHOOSE r \in Rows(ev) : r.event_id = e

\* the events table with the row of event e replaced by `row`
WithEvent(ev, e, row) ==
    [r \in {x \in DOMAIN ev : x.event_id # e} |-> ev[r]] (+) SetToBag({row})

\* index_match_game(event_id, match_id, game_id, db), the upstream answering
\* `resp`.  db: the event_games and event_matches tables.
index_match_game(db, e, m, g, resp) ==
    IF is_game_indexed(db.games, e, m, g) THEN [ok |-> TRUE, db |-> db]
    ELSE IF ~resp.some THEN [ok |-> FALSE, db |-> db]
    ELSE
      LET match_record == parse_match_data(resp.v, e)
          game_record == parse_game_data(resp.v, e)
          addMatch == ~is_match_indexed(db.matches, e, m)
                      /\ match_record.match_id # 0
          matches1 == IF addMatch THEN AddRow(db.matches, match_record)
                      ELSE db.matches
      IN IF addMatch /\ is_match_indexed(db.matches, e, match_record.match_id)
         THEN \* uq_event_match at the flush: rollback, return False
              [ok |-> FALSE, db |-> db]
         ELSE IF ~game_record.some
         THEN \* no game parsed: the match alone is committed
              IF is_match_indexed(matches1, e, m)
              THEN [ok |-> TRUE, db |-> [db EXCEPT !.matches = matches1]]
              ELSE [ok |-> FALSE, db |-> db]
         ELSE IF is_game_indexed(db.games, e, game_record.v.match_id,
                                 game_record.v.game_id)
         THEN \* uq_event_match_game at the commit: rollback, return False
              [ok |-> FALSE, db |-> db]
         ELSE [ok |-> TRUE,
               db |-> [games |-> AddRow(db.games,
                          [id |-> NextGameId(db.games),
                           event_id |-> e,
                           match_id |-> game_record.v.match_id,
                           game_id |-> game_record.v.game_id]),
                       matches |-> matches1]]

\* index_match_with_all_games(event_id, match_id, db); every caller leaves
\* check_additional_games at False
index_match_with_all_games(db, e, m, resp) ==
    IF is_game_indexed(db.games, e, m, 1) THEN [n |-> 0, db |-> db]
    ELSE LET r == index_match_game(db, e, m, 1, resp)
         IN [n |-> IF r.ok THEN 1 ELSE 0, db |-> r.db]

RECURSIVE DiscoverLoop(_, _, _)
\* the loop over bracket_details: a match id is put into seen_matches before
\* its position is looked at for game results
DiscoverLoop(bracket_details, seen_matches, games) ==
    IF bracket_details = <<>> THEN games
    ELSE LET detail == Head(bracket_details)
             match_id == detail.bracketmatchid
             seen == seen_matches \cup {match_id}
         IN IF match_id \in seen_matches
            THEN DiscoverLoop(Tail(bracket_details), seen_matches, games)
            ELSE IF ~detail.gameResults
            THEN DiscoverLoop(Tail(bracket_details), seen, games)
            ELSE DiscoverLoop(Tail(bracket_details), seen,
                              Append(games, match_id))

\* discover_all_games_from_bracket: the list, in payload order, of the match
\* ids to fetch, each with game id 1
discover_all_games_from_bracket(bracket) ==
    IF ~bracket.some THEN <<>>
    ELSE DiscoverLoop(bracket.v.details, {}, <<>>)

RECURSIVE IndexMatches(_, _, _, _)
\* the loop over games_to_index; resps[m]: what the match-stats request of
\* match m is answered with
IndexMatches(db, e, ms, resps) ==
    IF ms = <<>> THEN [n |-> 0, db |-> db]
    ELSE LET m == Head(ms)
             r == index_match_with_all_games(db, e, m, resps[m])
             rest == IndexMatches(r.db, e, Tail(ms), resps)
         IN [n |-> r.n + rest.n, db |-> rest.db]

GamesOfEvent(games, e) == {r \in Rows(games) : r.event_id = e}

\* A mutation of CompletenessCounters: complete only above the total.
CompletenessCounters_strict(total_games, indexed_count) ==
    [games_total_count |-> total_games,
     games_indexed_count |-> indexed_count,
     games_fully_indexed |-> indexed_count > total_games]

\* "Update event record" of discover_and_index_event_games_with_status, with
\* total_games the number of bracket matches found
CompletenessCounters(total_games, indexed_count) ==
    [games_total_count |-> total_games,
     games_indexed_count |-> indexed_count,
     games_fully_indexed |-> indexed_count >= total_games]

\* how a run ends: it returns the number of new games, or raises
Returned(op, e, n) == [op |-> op, event |-> e, raised |-> FALSE, new_games |-> n]

RaisedNameError(op, e) == [op |-> op, event |-> e, raised |-> TRUE, new_games |-> 0]

\* A mutation of discover_and_index_event_games: the skip check is left out.
discover_and_index_event_games_noskip(ev, e, skip_if_complete) ==
    RaisedNameError("discover", e)

\* discover_and_index_event_games(event_id, db, skip_if_complete): after the
\* skip check the nested log() reads log_callback, a name the function does
\* not have, so the first log call raises NameError
discover_and_index_event_games(ev, e, skip_if_complete) ==
    IF /\ skip_if_complete
       /\ \E r \in Rows(ev) : r.event_id = e /\ r.games_fully_indexed
    THEN Returned("discover", e, 0)
    ELSE RaisedNameError("discover", e)

\* discover_and_index_event_games_with_status for an event that has its Event
\* row.  bracketResp: what fetch_bracket_data gives if the event has no stored
\* game_data; resps: what the match-stats requests are answered with.
discover_and_index_event_games_with_status(ev, db, e, skip_if_complete, bracketResp, resps) ==
    LET event == EventOf(ev, e)
        \* get_bracket_data_for_event
        bracket == IF event.game_data.some THEN event.game_data ELSE bracketResp
        event1 == [event EXCEPT !.game_data = bracket]
        ev1 == WithEvent(ev, e, event1)
        games_from_bracket == discover_all_games_from_bracket(bracket)
    IN IF skip_if_complete /\ event.games_fully_indexed
       THEN [ev |-> ev1, db |-> db, run |-> Returned("with_status", e, 0)]
       ELSE IF games_from_bracket = <<>>
       THEN \* fallback: discover_and_index_event_games(skip_if_complete=False)
            [ev |-> ev1, db |-> db, run |-> RaisedNameError("with_status", e)]
       ELSE
         LET games_to_index ==
                 SelectSeq(games_from_bracket,
                           LAMBDA m : ~is_game_indexed(db.games, e, m, 1))
             r == IndexMatches(db, e, games_to_index, resps)
             counters == CompletenessCounters(
                             Len(games_from_bracket),
                             Cardinality(GamesOfEvent(r.db.games, e)))
             event2 == [event1 EXCEPT
                          !.games_total_count = counters.games_total_count,
                          !.games_indexed_count = counters.games_indexed_count,
                          !.games_fully_indexed = counters.games_fully_indexed]
         IN [ev |-> WithEvent(ev, e, event2), db |-> r.db,
             run |-> Returned("with_status", e, r.n)]

HasEvent(e) == \E r \in Rows(eventTbl) : r.event_id = e

\* index_event stores the Event row of e, with the bracket data it fetched
GameEventIndexed(e) ==
    /\ ~HasEvent(e)
    /\ \E gd \in Opt(GameBracketPayloads) :
           eventTbl' = AddRow(eventTbl, EventRow(e, "v1", gd))
    /\ UNCHANGED <<gameTbl, gameVars>>
    /\ UNCHANGED notGames

\* POST /api/index-games/event/{event_id} and the season loops of main.py:
\* discover_and_index_event_games_with_status(skip_if_complete=False) for an
\* event read from the events table
IndexGamesForEvent(e) ==
    /\ HasEvent(e)
    /\ LET stored == EventOf(eventTbl, e).game_data
       IN \E bracketResp \in (IF stored.some THEN {Absent}
                              ELSE Opt(GameBracketPayloads)) :
          \E resps \in MatchStatsAnswers :
              LET out == discover_and_index_event_games_with_status(
                             eventTbl, [games |-> gameTbl, matches |-> matchTbl],
                             e, FALSE, bracketResp, resps)
              IN /\ \A m \in MatchIds : resps[m] \in MatchStatsResponses(m)
                 /\ eventTbl' = out.ev
                 /\ gameTbl' = out.db.games
                 /\ matchTbl' = out.db.matches
                 /\ lastRun' = out.run
    /\ UNCHANGED notGames

\* discover_and_index_event_games(event_id, db) called on its own
\* (game_indexer_test.py, index_season_games_with_status)
DiscoverEventGames(e) ==
    /\ lastRun' = discover_and_index_event_games(eventTbl, e, TRUE)
    /\ UNCHANGED <<eventTbl, gameTbl, matchTbl>>
    /\ UNCHANGED notGames

NoRun == [op |-> "none", event |-> 0, raised |-> FALSE, new_games |-> 0]

InitGames ==
    /\ matchTbl = EmptyBag
    /\ lastRun = NoRun

NextGames ==
    \E e \in GameEventIds :
        \/ GameEventIndexed(e)
        \/ IndexGamesForEvent(e)
        \/ DiscoverEventGames(e)

Tasks == {"t1", "t2"}

\* the playerACLStandingsList of a standings response, as player ids
Rosters == {<<"p1", "p2">>, <<"p1", "p1">>}

\* fetch_standings: raise_for_status raises, or the JSON body is returned
StandingsResponses ==
    {[status |-> "HTTPError", playerACLStandingsList |-> <<>>],
     [status |-> "ERROR", playerACLStandingsList |-> <<>>]}
    \cup {[status |-> "OK", playerACLStandingsList |-> r] : r \in Rosters}

\* fetch_player_stats: None on any failure, else the data field
StatsResponses == {None, "stats", "malformed"}

\* batch_processed % 10 == 0
CommitEvery == 10

PlayerRow(p, d) == [player_id |-> p, snapshot_date |-> d]

\* parse_player_data: the record of a player, with or without stats; float()
\* of a malformed stats field raises
parse_player_data(p, stats, d) ==
    IF stats = "malformed"
    THEN [raised |-> TRUE, record |-> PlayerRow(p, d)]
    ELSE [raised |-> FALSE, record |-> PlayerRow(p, d)]

\* uq_player_bucket_snapshot: a row to insert collides with a stored one
PlayerClash(tbl, rows) == \E r \in rows : CopiesIn(r, tbl) > 0

\* db.commit() of a session that holds new Player rows of snapshot d: on
\* IntegrityError the transaction is rolled back and nothing is stored
db_commit(tbl, session, d) ==
    LET rows == {PlayerRow(p, d) : p \in session}
    IN  IF PlayerClash(tbl, rows)
        THEN [ok |-> FALSE, tbl |-> tbl]
        ELSE [ok |-> TRUE, tbl |-> AddRows(tbl, rows)]

\* A mutation of existing_players_query: no stored player is found.
existing_players_query_none(tbl, d) == {}

\* the players that already have a record of snapshot d
existing_players_query(tbl, d) ==
    {r.player_id : r \in {x \in Rows(tbl) : x.snapshot_date = d}}

\* players_to_process: the roster without the players already stored
players_to_process(players, existing) ==
    SelectSeq(players, LAMBDA p : p \notin existing)

\* the inner loop from position i on: a falsy or already processed playerID
\* is passed over; the position of the next player to fetch, or Len + 1
NextFetchable(players, existing, i) ==
    LET ok == {j \in i..Len(players) :
                  players[j] # None /\ players[j] \notin existing}
    IN  IF ok = {} THEN Len(players) + 1
        ELSE CHOOSE j \in ok : \A k \in ok : j <= k

\* A mutation of ControlCheck: the pause branch is missing.
ControlCheck_nopause(control) == IF control = "stop" THEN "stop" ELSE "go"

\* the check at the top of the loop, on fetch_control.get(bucket_id)
ControlCheck(control) ==
    IF control = "stop" THEN "stop"
    ELSE IF control = "pause" THEN "pause"
    ELSE "go"

\* `if bucket_id in fetch_status: fetch_status[bucket_id]["status"] = s`
SetStatus(s) == IF fetch_status = None THEN None ELSE s

\* a task that is not running: update_player_data has no live locals
IdleTask ==
    [pc |-> "idle", snapshot_date |-> 0, players_to_process |-> <<>>, i |-> 0,
     existing_player_ids |-> {}, session |-> {}, batch_processed |-> 0,
     seen |-> {}, started |-> <<>>]

Live == {t \in Tasks : task[t].pc # "idle"}

\* the season runs of event and game indexing that are running
LiveRuns ==
    {r \in {"events"} : eventRun.pc # "idle"}
    \cup {r \in {"games"} : gameRun.pc # "idle"}

\* the task returns and leaves the status `status`
Ends(t, status) ==
    /\ task' = [task EXCEPT ![t] = IdleTask]
    /\ fetch_status' = status
    /\ stopAsked' = stopAsked \ {t}

\* POST /api/fetch-data/{bucket_id}
FetchData(t) ==
    /\ task[t].pc = "idle"
    /\ fetch_status' = "running"
    /\ task' = [task EXCEPT ![t] = [IdleTask EXCEPT !.pc = "standings"]]
    /\ UNCHANGED <<fetch_control, playerTbl, week, stopAsked>>
    /\ UNCHANGED notFetch

\* the weekly job calls update_player_data(11) without a status entry
ScheduledFetch(t) ==
    /\ task[t].pc = "idle"
    /\ task' = [task EXCEPT ![t] = [IdleTask EXCEPT !.pc = "standings"]]
    /\ UNCHANGED <<fetch_status, fetch_control, playerTbl, week, stopAsked>>
    /\ UNCHANGED notFetch

\* update_player_data up to the query of the stored players
StandingsFetched(t, resp) ==
    /\ task[t].pc = "standings"
    /\ IF resp.status = "HTTPError"
       THEN Ends(t, SetStatus("error"))
       ELSE IF resp.status # "OK"
       THEN Ends(t, fetch_status)
       ELSE /\ task' = [task EXCEPT ![t] =
                           [@ EXCEPT !.pc = "query",
                                     !.snapshot_date = week,
                                     !.players_to_process =
                                         resp.playerACLStandingsList]]
            /\ fetch_status' = SetStatus("running")
            /\ UNCHANGED stopAsked
    /\ UNCHANGED <<fetch_control, playerTbl, week>>
    /\ UNCHANGED notFetch

\* the query of the stored players, and the filter of the roster
QueryExisting(t) ==
    /\ task[t].pc = "query"
    /\ LET tk == task[t]
           existing == existing_players_query(playerTbl, tk.snapshot_date)
           todo == players_to_process(tk.players_to_process, existing)
       IN  IF Len(todo) = 0
           THEN Ends(t, SetStatus("completed"))
           ELSE /\ task' = [task EXCEPT ![t] =
                               [tk EXCEPT !.pc = "top",
                                          !.players_to_process = todo,
                                          !.i = 1,
                                          !.existing_player_ids = existing,
                                          !.seen =
                                              {r.player_id : r \in
                                                  {x \in Rows(playerTbl) :
                                                      x.snapshot_date
                                                          = tk.snapshot_date}}]]
                /\ UNCHANGED <<fetch_status, stopAsked>>
    /\ UNCHANGED <<fetch_control, playerTbl, week>>
    /\ UNCHANGED notFetch

\* the stop branch: status, pop of the signal, commit, return; an
\* IntegrityError of the commit reaches the outer handler
StopNow(t) ==
    LET c == db_commit(playerTbl, task[t].session, task[t].snapshot_date)
    IN  /\ fetch_control' = None
        /\ playerTbl' = c.tbl
        /\ Ends(t, SetStatus(IF c.ok THEN "stopped" ELSE "error"))

\* the rest of an iteration: the next player's stats are requested, or the
\* loop has ended
Proceed(t) ==
    LET tk == task[t]
        j == NextFetchable(tk.players_to_process, tk.existing_player_ids, tk.i)
    IN  /\ task' = [task EXCEPT ![t] =
                       IF j <= Len(tk.players_to_process)
                       THEN [tk EXCEPT !.pc = "fetching", !.i = j,
                                       !.started = Append(@, j)]
                       ELSE [tk EXCEPT !.pc = "commit", !.i = j]]
        /\ UNCHANGED <<fetch_status, fetch_control, playerTbl, stopAsked>>

\* the top of the loop, up to the next await
LoopTop(t) ==
    /\ task[t].pc = "top"
    /\ LET c == ControlCheck(fetch_control)
       IN  IF c = "stop" THEN StopNow(t)
           ELSE IF c = "pause"
           THEN /\ task' = [task EXCEPT ![t].pc = "paused"]
                /\ UNCHANGED <<fetch_status, fetch_control, playerTbl,
                               stopAsked>>
           ELSE Proceed(t)
    /\ UNCHANGED week
    /\ UNCHANGED notFetch

\* `while fetch_control.get(bucket_id) == 'pause': await asyncio.sleep(1)`
\* and what follows it
PauseWait(t) ==
    /\ task[t].pc = "paused"
    /\ IF fetch_control = "pause"
       THEN UNCHANGED <<fetch_status, fetch_control, playerTbl, task,
                        stopAsked>>
       ELSE IF fetch_control = "stop" THEN StopNow(t)
       ELSE Proceed(t)
    /\ UNCHANGED week
    /\ UNCHANGED notFetch

\* fetch_player_stats has returned: the record is added to the session, or
\* the exception handler of the iteration commits what the session holds
FetchDone(t, stats) ==
    /\ task[t].pc = "fetching"
    /\ LET tk == task[t]
           p == tk.players_to_process[tk.i]
           rec == parse_player_data(p, stats, tk.snapshot_date)
           added == tk.session \cup {p}
           n == tk.batch_processed + 1
           commits == rec.raised \/ n % CommitEvery = 0
           c == db_commit(playerTbl, IF rec.raised THEN tk.session ELSE added,
                          tk.snapshot_date)
           pc == IF tk.i + 1 > Len(tk.players_to_process)
                 THEN "commit" ELSE "top"
       IN  /\ playerTbl' = IF commits THEN c.tbl ELSE playerTbl
           /\ task' = [task EXCEPT ![t] =
                 IF rec.raised
                 THEN [tk EXCEPT !.pc = pc, !.i = tk.i + 1, !.session = {}]
                 ELSE [tk EXCEPT !.pc = pc, !.i = tk.i + 1,
                                 !.session = IF commits THEN {} ELSE added,
                                 !.existing_player_ids = @ \cup {p},
                                 !.batch_processed = n]]
    /\ UNCHANGED <<fetch_status, fetch_control, week, stopAsked>>
    /\ UNCHANGED notFetch

\* the commits after the loop and the final status
Finish(t) ==
    /\ task[t].pc = "commit"
    /\ LET c == db_commit(playerTbl, task[t].session, task[t].snapshot_date)
       IN  /\ playerTbl' = c.tbl
           /\ Ends(t, SetStatus(IF c.ok THEN "completed" ELSE "error"))
    /\ UNCHANGED <<fetch_control, week>>
    /\ UNCHANGED notFetch

\* POST /api/fetch-control/{bucket_id}/pause
pause_fetch ==
    /\ fetch_control' = IF fetch_status # None THEN "pause" ELSE fetch_control
    /\ fetch_status' = SetStatus("paused")
    /\ stopAsked' = IF fetch_status # None THEN {} ELSE stopAsked
    /\ UNCHANGED <<playerTbl, week, task>>
    /\ UNCHANGED notFetch

\* POST /api/fetch-control/{bucket_id}/resume
resume_fetch ==
    /\ fetch_control' = IF fetch_status # None THEN "resume" ELSE fetch_control
    /\ fetch_status' = SetStatus("running")
    /\ stopAsked' = IF fetch_status # None THEN {} ELSE stopAsked
    /\ UNCHANGED <<playerTbl, week, task>>
    /\ UNCHANGED notFetch

\* POST /api/fetch-control/{bucket_id}/stop
stop_fetch ==
    /\ fetch_control' = IF fetch_status # None THEN "stop" ELSE fetch_control
    /\ fetch_status' = SetStatus("stopped")
    /\ stopAsked' = IF fetch_status # None THEN Live \cup LiveRuns
                    ELSE stopAsked
    /\ UNCHANGED <<playerTbl, week, task>>
    /\ UNCHANGED notFetch

\* a week passes
WeekPasses ==
    /\ week < MaxWeek
    /\ week' = week + 1
    /\ UNCHANGED <<fetch_status, fetch_control, playerTbl, task, stopAsked>>
    /\ UNCHANGED notFetch

InitFetch ==
    /\ fetch_status = None
    /\ fetch_control = None
    /\ playerTbl = EmptyBag
    /\ week = 1
    /\ task = [t \in Tasks |-> IdleTask]
    /\ stopAsked = {}

NextFetch ==
    \/ \E t \in Tasks :
          \/ FetchData(t)
          \/ ScheduledFetch(t)
          \/ \E resp \in StandingsResponses : StandingsFetched(t, resp)
          \/ QueryExisting(t)
          \/ LoopTop(t)
          \/ PauseWait(t)
          \/ \E stats \in StatsResponses : FetchDone(t, stats)
          \/ Finish(t)
    \/ pause_fetch
    \/ resume_fetch
    \/ stop_fetch
    \/ WeekPasses

\* ------------------------------------------- Player fetch: properties
\* in this step task t requests the stats of a player
StartsPlayer(t) == task[t].pc # "fetching" /\ task'[t].pc = "fetching"

\* in this step task t returns
Returns(t) == task[t].pc # "idle" /\ task'[t].pc = "idle"

Range(s) == {s[k] : k \in DOMAIN s}

\* the positions of its list a task has requested, in order and once each;
\* every position it has gone past without a request held a falsy id or a
\* player it had already processed
NoSkipNoRepeat(t) ==
    LET tk == task[t]
    IN  /\ \A a, b \in DOMAIN tk.started : a < b => tk.started[a] < tk.started[b]
        /\ \A j \in 1..(tk.i - 1) :
              \/ j \in Range(tk.started)
              \/ tk.players_to_process[j] = None
              \/ tk.players_to_process[j] \in tk.existing_player_ids
        /\ tk.pc = "fetching" =>
              tk.started # <<>> /\ tk.started[Len(tk.started)] = tk.i

C5_StopEndsStopped ==
    [][\A t \in stopAsked \cap Tasks :
          /\ ~StartsPlayer(t)
          /\ Returns(t) =>
                /\ fetch_status' = "stopped"
                /\ fetch_control' = None
                /\ \A p \in task[t].session :
                      CopiesIn(PlayerRow(p, task[t].snapshot_date),
                               playerTbl') = 1
      ]_vars

\* C7: the store never holds two records of a player for one snapshot, and
\* a run requests no player that had a record of the run's snapshot when the
\* run read the store.
C7_StoredPlayersAreSkipped ==
    /\ \A r \in DOMAIN playerTbl : playerTbl[r] <= 1
    /\ \A t \in Tasks : \A j \in Range(task[t].started) :
          task[t].players_to_process[j] \notin task[t].seen

\* a re-run found a stored player and requests one of the others
C7_Witness ==
    \E t \in Tasks :
        /\ task[t].pc = "fetching"
        /\ task[t].seen # {}
        /\ PlayerRow(task[t].players_to_process[task[t].i],
                     task[t].snapshot_date) \notin Rows(playerTbl)

\* C34: a run is stopped by its loop check only on a stop that was requested
\* while the run was live: a signal set before the run started (after the
\* previous run had ended, or left unread by it) does not end the new run.
C34_NewRunIgnoresEarlierSignal ==
    [][\A t \in Tasks :
          (task[t].pc \in {"top", "paused"} /\ fetch_control = "stop"
              /\ Returns(t)) => t \in stopAsked
      ]_vars

\* C35: with two tasks of the season running, no task that was live when stop
\* was requested (the request not replaced by a later pause or resume)
\* requests a further player, and the store never holds two records of a
\* player for one snapshot.
C35_OneStopStopsBothTasks ==
    /\ [][\A t \in stopAsked \cap Tasks : ~StartsPlayer(t)]_vars
    /\ [](\A r \in DOMAIN playerTbl : playerTbl[r] <= 1)

\* the statuses a finished run is meant to show
TerminalStatuses == {"completed", "stopped", "error"}

\* C36: when the last live task of a season that has a status entry returns,
\* the status is completed, stopped or error; and while no task is live a
\* terminal status is not changed by a pause, resume or stop request.
C36_RunEndsTerminalAndStays ==
    [][/\ \A t \in Tasks :
             (Returns(t) /\ Live = {t} /\ fetch_status # None)
                 => fetch_status' \in TerminalStatuses
       /\ (Live = {} /\ Live' = {} /\ fetch_status \in TerminalStatuses)
             => fetch_status' = fetch_status
      ]_vars

\* the match ids that have a position with game results in the bracket
MatchesWithResults(bracket) ==
    {bracket.v.details[k].bracketmatchid :
        k \in {i \in DOMAIN bracket.v.details : bracket.v.details[i].gameResults}}

\* C15: for the bracket data of every event, in whatever order its positions
\* are listed, discover_all_games_from_bracket lists exactly once every match
\* id that has a position with game results, and lists no match id none of
\* whose positions has game results.
C15_DiscoveryIsOrderIndependent ==
    \A r \in Rows(eventTbl) :
        r.game_data.some =>
            LET games == discover_all_games_from_bracket(r.game_data)
            IN \A m \in MatchIds :
                  Cardinality({k \in DOMAIN games : games[k] = m})
                     = IF m \in MatchesWithResults(r.game_data) THEN 1 ELSE 0

\* the event has stored bracket data from which no match id is derived
NoBracketDerivedIds(r) ==
    r.game_data.some /\ discover_all_games_from_bracket(r.game_data) = <<>>

\* C16: a run for an event that has no bracket-derived match ids falls back to
\* probing match ids 1..max_match_id with game id 1 and ends normally, after
\* at most max_match_id probes, with the matches it found stored.
C16_FallbackProbingTerminates ==
    \A r \in Rows(eventTbl) :
        /\ lastRun.op \in {"discover", "with_status"}
        /\ lastRun.event = r.event_id
        /\ NoBracketDerivedIds(r)
        => ~lastRun.raised

FullyIndexed(e) == \E r \in Rows(eventTbl) : r.event_id = e /\ r.games_fully_indexed

\* C18: a run of discover_and_index_event_games for an event whose
\* games_fully_indexed flag is true returns 0 and changes no Event, Match or
\* Game row, so no bracket data is stored and no completeness counter moves.
C18_CompleteEventIsSkipped ==
    [][\A e \in GameEventIds :
          DiscoverEventGames(e) /\ FullyIndexed(e)
             => /\ lastRun' = Returned("discover", e, 0)
                /\ UNCHANGED <<eventTbl, gameTbl, matchTbl>>]_vars

\* a run has skipped an event that an earlier run had counted complete
C18_Witness ==
    /\ lastRun.op = "discover"
    /\ lastRun = Returned("discover", lastRun.event, 0)
    /\ FullyIndexed(lastRun.event)
    /\ GamesOfEvent(gameTbl, lastRun.event) # {}

\* C19: a run of discover_and_index_event_games(event_id, db) ends normally
\* and returns the number of games it stored, 0 for an event it skips as
\* complete, also for an event that is not yet fully indexed.
C19_DiscoverReturnsNewGames ==
    lastRun.op = "discover"
       => /\ ~lastRun.raised
          /\ FullyIndexed(lastRun.event) => lastRun.new_games = 0

\* =========================================================================
\* Probing the games of a match
\*   (src/game_indexer.py index_match_with_all_games,
\*    src/acl_cache_indexer.py index_all_games_for_season)
\* =========================================================================

\* game ids 1..MaxGamesOfMatch are the ones the upstream may have; it answers
\* every higher game id with 404
MaxGamesOfMatch == 2

UpstreamGameIds == 1..MaxGamesOfMatch

\* `while consecutive_failures < 3`
FailureLimit == 3

\* `for game_id in range(1, 10)`
GameIdRangeEnd == 10

\* one request of a probing and whether its answer was a game
Asked(game_id, found) == [game_id |-> game_id, found |-> found]

\* what fetch_match_stats gives for the games of match m
GameAnswers(m) ==
    LET kinds == {"none", "no_details", "details"}
        answer(g, k) == IF k = "none" THEN Absent
                        ELSE Some([matchID |-> m, gameID |-> g,
                                   details |-> (k = "details")])
    IN {[g \in UpstreamGameIds |-> answer(g, c[g])] : c \in [UpstreamGameIds -> kinds]}

AnswerFor(answers, game_id) ==
    IF game_id \in DOMAIN answers THEN answers[game_id] ELSE Absent

RECURSIVE AdditionalGames(_, _, _, _, _, _)
\* the loop of index_match_with_all_games under check_additional_games;
\* st: the tables, games_indexed and the requests made so far
AdditionalGames(st, e, m, game_id, consecutive_failures, answers) ==
    IF consecutive_failures >= FailureLimit THEN st
    ELSE LET match_data == AnswerFor(answers, game_id)
             asked == Append(st.requested, Asked(game_id, match_data.some))
         IN IF ~match_data.some
            THEN AdditionalGames([st EXCEPT !.requested = asked], e, m,
                                 game_id + 1, consecutive_failures + 1, answers)
            ELSE LET r == index_match_game(st.db, e, m, game_id, match_data)
                     again == IF is_game_indexed(st.db.games, e, m, game_id)
                              THEN asked
                              ELSE Append(asked, Asked(game_id, TRUE))
                 IN AdditionalGames([db |-> r.db,
                                     n |-> st.n + (IF r.ok THEN 1 ELSE 0),
                                     requested |-> again],
                                    e, m, game_id + 1, 0, answers)

\* index_match_with_all_games(event_id, match_id, db,
\* check_additional_games=True)
index_match_with_additional_games(db, e, m, answers) ==
    IF is_game_indexed(db.games, e, m, 1)
    THEN [db |-> db, n |-> 0, requested |-> <<>>]
    ELSE LET game1 == AnswerFor(answers, 1)
             r == index_match_game(db, e, m, 1, game1)
             st == [db |-> r.db, n |-> IF r.ok THEN 1 ELSE 0,
                    requested |-> <<Asked(1, game1.some)>>]
         IN IF r.ok THEN AdditionalGames(st, e, m, 2, 0, answers) ELSE st

\* what the upstream answers a match-stats request of the caching pass with
CacheGameResponses ==
    {r \in Responses : r.code \in {404, 500} \/ r.body \in {OkRows, ErrorBody}}

MatchGameUrl(e, m, g) == Url("match_stats", <<e, m, g>>)

RECURSIVE CacheGamesLoop(_, _, _, _, _)
\* `for game_id in range(1, 10)` of index_all_games_for_season for one
\* bracket match: index_match_stats until a game is falsy or raises
CacheGamesLoop(st, e, m, game_id, resps) ==
    IF game_id >= GameIdRangeEnd THEN st
    ELSE LET url == MatchGameUrl(e, m, game_id)
             resp == IF game_id \in DOMAIN resps THEN resps[game_id]
                     ELSE [code |-> 404, body |-> EmptyJson]
             out == index_match_stats(st.cache, url, TRUE, resp)
             game_data == out.ret.kind = "response" /\ Truthy(out.ret.json)
             asked == IF out.requested
                      THEN Append(st.requested, Asked(game_id, game_data))
                      ELSE st.requested
         IN IF game_data
            THEN CacheGamesLoop([cache |-> out.cache, n |-> st.n + 1,
                                 requested |-> asked,
                                 seen |-> Append(st.seen, Asked(game_id, TRUE))],
                                e, m, game_id + 1, resps)
            ELSE [cache |-> out.cache, n |-> st.n, requested |-> asked,
                  seen |-> Append(st.seen, Asked(game_id, FALSE))]

\* the matches whose games are probed: a probing takes one match id and reads
\* and writes the rows and cache entries of that match only
ProbedMatchIds == {1, 2}

NoProbe == [op |-> "none", event |-> 0, match |-> 0, requested |-> <<>>, seen |-> <<>>, games |-> 0, error |-> FALSE]

\* index_match_with_all_games(event_id, match_id, db, True)
IndexMatchWithAdditionalGames(e, m) ==
    /\ \E answers \in GameAnswers(m) :
          LET out == index_match_with_additional_games(
                         [games |-> gameTbl, matches |-> matchTbl], e, m, answers)
          IN /\ gameTbl' = out.db.games
             /\ matchTbl' = out.db.matches
             /\ matchProbe' = [op |-> "game_indexer", event |-> e, match |-> m,
                               requested |-> out.requested,
                               seen |-> out.requested,
                               games |-> out.n, error |-> FALSE]
    /\ UNCHANGED cacheTbl
    /\ UNCHANGED notProbe

\* the body of `for bracket_match in bracket_details` of
\* index_all_games_for_season for one match of a cached bracket
CacheGamesOfMatch(e, m) ==
    /\ \E resps \in [UpstreamGameIds -> CacheGameResponses] :
          LET out == CacheGamesLoop([cache |-> cacheTbl, n |-> 0,
                                     requested |-> <<>>, seen |-> <<>>],
                                    e, m, 1, resps)
          IN /\ cacheTbl' = out.cache
             /\ matchProbe' = [op |-> "cache_pass", event |-> e, match |-> m,
                               requested |-> out.requested, seen |-> out.seen,
                               games |-> out.n, error |-> FALSE]
    /\ UNCHANGED <<gameTbl, matchTbl>>
    /\ UNCHANGED notProbe

InitProbe == matchProbe = NoProbe

NextProbe ==
    \E e \in GameEventIds, m \in ProbedMatchIds :
        \/ IndexMatchWithAdditionalGames(e, m)
        \/ CacheGamesOfMatch(e, m)

\* ------------------------------------------------ Probing: properties
\* positions k of the probing where game 2 was found absent after game 1 had
\* been found
AbsentSecondGame(k) ==
    /\ matchProbe.seen[k] = Asked(2, FALSE)
    /\ \E j \in 1..(k - 1) : matchProbe.seen[j] = Asked(1, TRUE)

\* C31: index_match_game returns True only with the Game row of its (event,
\* match, game) stored, so the count index_match_with_all_games returns is the
\* number of event_games rows the call added
C31_CountIsRowsAdded ==
    [][matchProbe'.op = "game_indexer"
          => matchProbe'.games
                 = BagCardinality(gameTbl') - BagCardinality(gameTbl)]_vars

\* C17: when game 2 of a match is found absent after its game 1 was found,
\* the probing of the match ends there: no further game id is asked for, no
\* error is recorded and the match contributes its one game.
C17_AbsentSecondGameEndsProbing ==
    \A k \in DOMAIN matchProbe.seen :
        AbsentSecondGame(k)
           => /\ k = Len(matchProbe.seen)
              /\ ~matchProbe.error
              /\ matchProbe.games = 1

\* =========================================================================
\* Upstream fetch functions  (src/fetcher.py)
\* =========================================================================

\* The HTTP error statuses the upstream answers with.
HttpErrorCodes == {400, 404, 409, 429, 500, 503}

\* `400 <= response.status_code < 500`
Is4xx(code) == 400 <= code /\ code < 500

\* What client.get gives: a 200 with a JSON body, an HTTP error status, or no
\* response at all (code 0: the request timed out or the connection failed
\* and client.get raises)
FetcherResponses ==
    {[code |-> 200, body |-> b] : b \in Bodies}
    \cup {[code |-> c, body |-> EmptyJson] : c \in HttpErrorCodes \cup {0}}

\* a 5xx answer, a timeout or a network error
IsTransient(resp) == resp.code = 0 \/ resp.code >= 500

\* what a call did: the URLs it requested, in order, and what it returned
FetcherOut(requests, ret) == [requests |-> requests, ret |-> ret]

\* A mutation of fetch_match_stats: a 4xx answer is asked for a second time.
fetch_match_stats_retry(url, resp) ==
    FetcherOut(IF Is4xx(resp.code) THEN <<url, url>> ELSE <<url>>,
        IF resp.code = 0 THEN RetNone
        ELSE IF Is4xx(resp.code) THEN RetNone
        ELSE IF resp.code # 200 THEN Raises
        ELSE IF resp.body.status = "ERROR" THEN RetNone
        ELSE Ret("response", resp.body))

\* fetch_match_stats: one client.get; a 4xx is None, any other error status
\* is re-raised, any other exception is None
fetch_match_stats(url, resp) ==
    FetcherOut(<<url>>,
        IF resp.code = 0 THEN RetNone
        ELSE IF Is4xx(resp.code) THEN RetNone
        ELSE IF resp.code # 200 THEN Raises
        ELSE IF resp.body.status = "ERROR" THEN RetNone
        ELSE Ret("response", resp.body))

\* fetch_event_info: one client.get; every exception is None
fetch_event_info(url, resp) ==
    FetcherOut(<<url>>,
        IF resp.code # 200 THEN RetNone
        ELSE IF resp.body.status = "OK" THEN Ret("data", resp.body)
        ELSE RetNone)

\* fetch_bracket_data: as fetch_event_info, returning the whole response
fetch_bracket_data(url, resp) ==
    FetcherOut(<<url>>,
        IF resp.code # 200 THEN RetNone
        ELSE IF resp.body.status = "OK" THEN Ret("response", resp.body)
        ELSE RetNone)

\* one call of a fetcher function, the upstream answering `resp`
FetcherCalled(op, url, resp, out) ==
    /\ Len(fetcherLog) < MaxFetch
    /\ fetcherLog' = Append(fetcherLog,
           [op |-> op, url |-> url, resp |-> resp,
            requests |-> out.requests, ret |-> out.ret])
    /\ UNCHANGED notFetcher

CallFetchMatchStats(id) ==
    \E resp \in FetcherResponses :
        LET url == Url("match_stats", id)
        IN FetcherCalled("match_stats", url, resp, fetch_match_stats(url, resp))

CallFetchEventInfo(id) ==
    \E resp \in FetcherResponses :
        LET url == Url("event_info", id)
        IN FetcherCalled("event_info", url, resp, fetch_event_info(url, resp))

CallFetchBracketData(id) ==
    \E resp \in FetcherResponses :
        LET url == Url("bracket_data", id)
        IN FetcherCalled("bracket_data", url, resp, fetch_bracket_data(url, resp))

InitFetcher == fetcherLog = <<>>

NextFetcher ==
    \E id \in UrlIds :
        \/ CallFetchMatchStats(id)
        \/ CallFetchEventInfo(id)
        \/ CallFetchBracketData(id)

\* ---------------------------------------- Upstream fetch functions: properties
\* C11: a fetch_match_stats call that the upstream answers with an HTTP 4xx
\* status returns None without raising, and has issued exactly one request,
\* the one for its URL.
C11_ClientErrorIsAbsent ==
    \A i \in DOMAIN fetcherLog :
        (fetcherLog[i].op = "match_stats" /\ Is4xx(fetcherLog[i].resp.code))
            => /\ fetcherLog[i].ret = RetNone
               /\ fetcherLog[i].requests = <<fetcherLog[i].url>>

\* fetch_match_stats calls answered 404 and 409
C11_Witness ==
    /\ Len(fetcherLog) = 2
    /\ \A i \in DOMAIN fetcherLog : fetcherLog[i].op = "match_stats"
    /\ fetcherLog[1].resp.code = 404
    /\ fetcherLog[2].resp.code = 409
    /\ fetcherLog[2].ret = RetNone

\* C12: a fetch that the upstream answers with a 5xx status, or that times
\* out or fails on the network, raises to its caller: it does not return the
\* None that stands for a resource that does not exist.
C12_TransientErrorIsSurfaced ==
    \A i \in DOMAIN fetcherLog :
        IsTransient(fetcherLog[i].resp) => fetcherLog[i].ret = Raises

\* =========================================================================
\* Caching pass over the players of a season  (src/acl_cache_indexer.py)
\* =========================================================================

\* the players of the season's standings
MaxPlayer == 2

CachePlayerIds == 1..MaxPlayer

\* index_all_player_data_for_season when it is not running; the counters are
\* those of cache_indexing_status["players_<bucket>"], outcomes is how each
\* player of the list has ended so far ("ok" or "error")
IdlePlayerDataRun ==
    [pc |-> "idle", player_list |-> <<>>, i |-> 0, stats_indexed |-> 0,
     events_indexed |-> 0, processed_players |-> 0, errors |-> 0,
     outcomes |-> <<>>]

\* Python truthiness of what a cached fetch operation returns
TruthyRet(ret) ==
    CASE ret.kind = "response" -> Truthy(ret.json)
      [] ret.kind = "data" -> ret.json.data = "rows"
      [] OTHER -> FALSE

\* the player ids of the standings' playerACLStandingsList; a response
\* without the list gives no player
PlayerList(standings) ==
    IF standings.kind = "response" /\ standings.json = OkRows
    THEN SortedSeq(CachePlayerIds)
    ELSE <<>>

\* POST /api/acl-cache/index-players/{bucket_id}: the task starts and sets
\* its status entry
index_acl_players ==
    /\ playerDataRun.pc = "idle"
    /\ playerDataRun' = [IdlePlayerDataRun EXCEPT !.pc = "standings"]
    /\ cache_indexing_status' = "running"
    /\ UNCHANGED cacheTbl
    /\ UNCHANGED notCacheRun

\* index_standings has returned or raised; a raise ends the run in "error"
PlayerDataStandings(resp) ==
    /\ playerDataRun.pc = "standings"
    /\ LET out == index_standings(cacheTbl, Url("standings", 1), TRUE, resp)
       IN  /\ cacheTbl' = out.cache
           /\ IF out.ret = Raises
              THEN /\ playerDataRun' = [playerDataRun EXCEPT !.pc = "idle"]
                   /\ cache_indexing_status' = "error"
              ELSE /\ playerDataRun' = [playerDataRun EXCEPT
                          !.pc = "loop",
                          !.player_list = PlayerList(out.ret),
                          !.i = 1]
                   /\ UNCHANGED cache_indexing_status
    /\ UNCHANGED notCacheRun

\* one iteration of the loop over player_list: index_player_stats, then
\* index_player_events_list; an exception of either is counted and the loop
\* goes on
PlayerDataItem(statsResp, eventsResp) ==
    /\ playerDataRun.pc = "loop"
    /\ playerDataRun.i <= Len(playerDataRun.player_list)
    /\ LET p == playerDataRun.player_list[playerDataRun.i]
           stats == index_player_stats(cacheTbl, Url("player_stats", p),
                                       TRUE, statsResp)
           events == index_player_events_list(stats.cache,
                         Url("player_events", p), TRUE, eventsResp)
           statsHit == IF TruthyRet(stats.ret) THEN 1 ELSE 0
           eventsHit == IF TruthyRet(events.ret) THEN 1 ELSE 0
       IN  IF stats.ret = Raises
           THEN /\ cacheTbl' = stats.cache
                /\ playerDataRun' = [playerDataRun EXCEPT
                       !.i = @ + 1,
                       !.errors = @ + 1,
                       !.outcomes = Append(@, "error")]
           ELSE IF events.ret = Raises
           THEN /\ cacheTbl' = events.cache
                /\ playerDataRun' = [playerDataRun EXCEPT
                       !.i = @ + 1,
                       !.stats_indexed = @ + statsHit,
                       !.errors = @ + 1,
                       !.outcomes = Append(@, "error")]
           ELSE /\ cacheTbl' = events.cache
                /\ playerDataRun' = [playerDataRun EXCEPT
                       !.i = @ + 1,
                       !.stats_indexed = @ + statsHit,
                       !.events_indexed = @ + eventsHit,
                       !.processed_players = playerDataRun.i,
                       !.outcomes = Append(@, "ok")]
    /\ UNCHANGED cache_indexing_status
    /\ UNCHANGED notCacheRun

\* the loop has ended: the final commit and the status "completed"
PlayerDataFinish ==
    /\ playerDataRun.pc = "loop"
    /\ playerDataRun.i > Len(playerDataRun.player_list)
    /\ playerDataRun' = [playerDataRun EXCEPT !.pc = "idle"]
    /\ cache_indexing_status' = "completed"
    /\ UNCHANGED cacheTbl
    /\ UNCHANGED notCacheRun

InitPlayerDataRun ==
    /\ cache_indexing_status = None
    /\ playerDataRun = IdlePlayerDataRun

\* index_all_events_for_season when it has not run; status is
\* cache_indexing_status["events_<bucket>"]["status"], strategy the branch
\* that gave event_ids, failed whether a player's list could not be had
IdleEventsRun ==
    [pc |-> "idle", status |-> None, strategy |-> 0, event_ids |-> {},
     roster |-> {}, failed |-> FALSE, event_list |-> <<>>, processed_events |-> 0]

InitEventsRun == eventsRun = IdleEventsRun

NoEntry == [path |-> "none", entry |-> None, passed |-> FALSE]

InitFilter == discovered = NoEntry

NoRecordCall ==
    [op |-> "none", stats_list |-> <<>>, standings_list |-> <<>>, matches |-> <<>>,
     result |-> FALSE, event_stored |-> FALSE, pes |-> {}, standings |-> {},
     matchups |-> {}]

InitRecords == recordCall = NoRecordCall

NoRankCall ==
    [op |-> "none", player_stats |-> <<>>, num_brackets |-> 0,
     overall_ranks |-> <<>>]

NoTally ==
    [op |-> "none", games |-> 0,
     game |-> [player1_id |-> 1, player2_id |-> 2, player1_points |-> Absent,
               player2_points |-> Absent],
     player_stats |-> [pid \in {1, 2} |->
                          [games_played |-> 0, wins |-> 0, losses |-> 0]]]

NoPairing == [op |-> "none", standings |-> <<>>, games |-> <<>>, partners |-> <<>>]

InitStats ==
    /\ rankCall = NoRankCall
    /\ tally = NoTally
    /\ pairing = NoPairing

\* =========================================================================
\* Commit with retry in update_player_data  (src/main.py)
\* =========================================================================
\* The three commit steps of the player fetch that retry on a locked
\* database: the commit every ten players inside a batch, the commit at the
\* end of a batch and the final commit.

\* player records the session holds when a commit step begins
MaxPending == 2

CommitSites == {"in_batch", "batch", "final"}

\* `max_retries = 3` inside the batch, `max_retries = 5` for the other two
InBatchMaxRetries == 3

BatchMaxRetries == 5

max_retries(site) ==
    IF site = "in_batch" THEN InBatchMaxRetries ELSE BatchMaxRetries

\* the sleep before the next attempt, in tenths of a second:
\* 0.1 * (retry + 1) inside the batch, 0.2 * (retry + 1) for the other two
wait_time(site, retry) ==
    IF site = "in_batch" THEN 1 * (retry + 1) ELSE 2 * (retry + 1)

\* what db.commit() does: it succeeds, or raises "database is locked", or
\* raises another error
CommitOutcomes == {"ok", "locked", "error"}

\* pc: "try" in the retry loop, "done" after a commit that succeeded,
\* "raised" when the loop has raised `error`, and after the handler that
\* catches the raise "continued" (the loop over the batch goes on) or
\* "errored" (update_player_data ends with the status "error").  pending:
\* the records added to the session and not committed; a rollback drops them
\* (rolled_back counts them)
IdleCommit ==
    [pc |-> "idle", site |-> "final", retry |-> 0, waits |-> <<>>,
     pending |-> 0, committed |-> 0, rolled_back |-> 0, error |-> None]

\* the commit step of `site` begins with n records added to the session
CommitBegins(site, n) ==
    /\ commitStep.pc \notin {"try", "raised"}
    /\ commitStep' = [IdleCommit EXCEPT !.pc = "try", !.site = site,
                                        !.pending = n]
    /\ UNCHANGED notCommit

\* one pass of `for retry in range(max_retries)`: the commit, and on a locked
\* database before the last attempt the rollback and the sleep
CommitAttempt(outcome) ==
    /\ commitStep.pc = "try"
    /\ commitStep' =
          IF outcome = "ok"
          THEN [commitStep EXCEPT !.pc = "done",
                                  !.committed = commitStep.pending,
                                  !.pending = 0]
          ELSE IF /\ outcome = "locked"
                  /\ commitStep.retry < max_retries(commitStep.site) - 1
          THEN [commitStep EXCEPT
                   !.pending = 0,
                   !.rolled_back = @ + commitStep.pending,
                   !.waits = Append(@, wait_time(commitStep.site,
                                                 commitStep.retry)),
                   !.retry = @ + 1]
          ELSE [commitStep EXCEPT !.pc = "raised", !.error = outcome]
    /\ UNCHANGED notCommit

\* the handler that catches the raise commits what the session holds and
\* rolls back if that fails: the handler of the player's iteration for the
\* commit inside the batch, the handler of update_player_data for the others
CommitRaiseHandled(outcome) ==
    /\ commitStep.pc = "raised"
    /\ commitStep' = [commitStep EXCEPT
           !.pc = IF commitStep.site = "in_batch" THEN "continued"
                  ELSE "errored",
           !.committed = IF outcome = "ok" THEN commitStep.pending ELSE 0,
           !.rolled_back = IF outcome = "ok" THEN @ ELSE @ + commitStep.pending,
           !.pending = 0]
    /\ UNCHANGED notCommit

InitCommit == commitStep = IdleCommit

NextCommit ==
    \/ \E site \in CommitSites : \E n \in 0..MaxPending : CommitBegins(site, n)
    \/ \E outcome \in CommitOutcomes : CommitAttempt(outcome)
    \/ \E outcome \in CommitOutcomes : CommitRaiseHandled(outcome)

\* ------------------------------------------------ Commit with retry: properties
\* C14: a commit step makes at most max_retries attempts (3 inside the batch,
\* 5 for the batch and final commits), each wait before a further attempt is
\* twice the one before it, and the retry loop raises the lock error exactly
\* when the last of its attempts has failed.
C14_BoundedExponentialRetry ==
    /\ commitStep.retry < max_retries(commitStep.site)
    /\ Len(commitStep.waits) = commitStep.retry
    /\ \A k \in 2..Len(commitStep.waits) :
           commitStep.waits[k] = 2 * commitStep.waits[k - 1]
    /\ commitStep.error = "locked"
          => commitStep.retry = max_retries(commitStep.site) - 1

\* C32: when a commit fails on a locked database and a retry then succeeds,
\* every player record added since the last successful commit is persisted:
\* none of them has been dropped from the session
C32_RetryPersistsPendingPlayers ==
    (commitStep.pc = "done" /\ commitStep.retry > 0)
        => commitStep.rolled_back = 0

\* =========================================================================
\* Season runs of event and game indexing
\* (src/event_indexer.py, src/game_indexer.py, src/main.py)
\* =========================================================================
\* One run of each kind exists at a time.  A step of a run is the code
\* between the awaits that other code can observe: the start of an item (the
\* top of the loop up to the first request of the item) and its end.

\* a run that is not running.  outcomes: how each item of the run's list has
\* ended so far ("ok", "skipped" or "error"), in the order of the list; a
\* run that has ended keeps its list and its outcomes
IdleEventRun ==
    [pc |-> "idle", skip_processed |-> FALSE, player_ids |-> <<>>, idx |-> 0,
     processed_player_ids |-> {}, indexed_event_ids |-> {}, outcomes |-> <<>>]

IdleGameRun == [pc |-> "idle", event_ids |-> <<>>, idx |-> 0, outcomes |-> <<>>]

\* n times the outcome o
Times(n, o) == [k \in 1..n |-> o]

\* the orders in which a query without ORDER BY can return the elements of S
SeqsOf(S) ==
    {s \in [1..Cardinality(S) -> S] : \A a, b \in DOMAIN s : a # b => s[a] # s[b]}

\* fetch_player_events_list: None, or the ids of the player's events
PlayerEventLists == SUBSET GameEventIds

\* get_indexed_event_ids
get_indexed_event_ids(ev) == {r.event_id : r \in Rows(ev)}

RECURSIVE index_player_events(_, _, _, _)
\* index_player_events for the events `events` of the player's list: every
\* event that is not in indexed_event_ids goes through index_event
index_player_events(db, indexed_event_ids, events, up) ==
    IF events = {} THEN [db |-> db, indexed_event_ids |-> indexed_event_ids]
    ELSE LET e == CHOOSE x \in events : \A y \in events : x <= y
             out == index_event(db, e, FALSE, up)
         IN  IF e \in indexed_event_ids
             THEN index_player_events(db, indexed_event_ids, events \ {e}, up)
             ELSE index_player_events(out.session,
                      IF out.result THEN indexed_event_ids \cup {e}
                      ELSE indexed_event_ids,
                      events \ {e}, up)

\* the next position of the loop that is not skipped as processed, or Len + 1
NextUnskipped(run) ==
    LET ok == {j \in run.idx..Len(run.player_ids) :
                  ~(run.skip_processed
                    /\ run.player_ids[j] \in run.processed_player_ids)}
    IN  IF ok = {} THEN Len(run.player_ids) + 1
        ELSE CHOOSE j \in ok : \A k \in ok : j <= k

\* POST /api/index-events/{bucket_id}
index_events_for_season(skip_processed) ==
    /\ eventRun.pc = "idle"
    /\ event_indexing_status' =
          IF event_indexing_status = None THEN "running"
          ELSE event_indexing_status
    /\ eventRun' = [IdleEventRun EXCEPT !.pc = "query",
                                        !.skip_processed = skip_processed]
    /\ UNCHANGED <<game_indexing_status, gameRun>>
    /\ UNCHANGED notSeason

\* index_season_events_with_status up to its loop: the players of the season,
\* the indexed events, the players that have a PlayerEventStats row
EventRunQuery ==
    /\ eventRun.pc = "query"
    /\ \E ids \in SeqsOf({r.player_id : r \in Rows(playerTbl)}) :
          eventRun' = [eventRun EXCEPT
              !.pc = "loop",
              !.player_ids = ids,
              !.idx = 1,
              !.indexed_event_ids = get_indexed_event_ids(eventTbl),
              !.processed_player_ids =
                  IF eventRun.skip_processed
                  THEN {r.player_id : r \in Rows(pesTbl)}
                  ELSE {}]
    /\ UNCHANGED <<event_indexing_status, game_indexing_status, gameRun>>
    /\ UNCHANGED notSeason

\* the top of the loop: the next player's event list is requested, or the
\* loop has ended and the run is completed
EventItemStart ==
    /\ eventRun.pc = "loop"
    /\ LET j == NextUnskipped(eventRun)
           skipped == eventRun.outcomes \o Times(j - eventRun.idx, "skipped")
       IN  IF j <= Len(eventRun.player_ids)
           THEN /\ eventRun' = [eventRun EXCEPT !.pc = "item", !.idx = j,
                                                !.outcomes = skipped]
                /\ UNCHANGED <<event_indexing_status, stopAsked>>
           ELSE /\ eventRun' = [IdleEventRun EXCEPT
                                    !.player_ids = eventRun.player_ids,
                                    !.outcomes = skipped]
                /\ event_indexing_status' = "completed"
                /\ stopAsked' = stopAsked \ {"events"}
    /\ UNCHANGED <<game_indexing_status, gameRun>>
    /\ UNCHANGED <<fetch_status, fetch_control, playerTbl, week, task>>
    /\ UNCHANGED <<eventVars, cacheVars, aggVars, gameVars, laterVars>>

\* index_player_events of the item has returned
EventItemDone(events, up) ==
    /\ eventRun.pc = "item"
    /\ LET out == index_player_events(Db, eventRun.indexed_event_ids, events, up)
       IN  /\ SetDb(out.db)
           /\ eventRun' = [eventRun EXCEPT
                  !.pc = "loop",
                  !.idx = @ + 1,
                  !.indexed_event_ids = out.indexed_event_ids,
                  !.outcomes = Append(@, "ok")]
    /\ UNCHANGED <<event_indexing_status, game_indexing_status, gameRun>>
    /\ UNCHANGED <<lastCall, cacheVars, aggVars, gameVars, fetchVars, laterVars>>

\* A mutation of EventItemRaised: the exception of an item ends the run.
EventItemRaised_aborts(events, up) ==
    /\ eventRun.pc = "item"
    /\ LET out == index_player_events(Db, eventRun.indexed_event_ids, events, up)
       IN  /\ SetDb(out.db)
           /\ eventRun' = [eventRun EXCEPT
                  !.pc = "idle",
                  !.indexed_event_ids = out.indexed_event_ids,
                  !.outcomes = Append(@, "error")]
    /\ event_indexing_status' = "error"
    /\ UNCHANGED <<game_indexing_status, gameRun>>
    /\ UNCHANGED <<lastCall, cacheVars, aggVars, gameVars, fetchVars, laterVars>>

\* index_player_events of the item has raised after the events `events` of
\* the player's list (an entry of the list that is not an object, a storage
\* error of a query): the handler of the iteration notes the error and goes
\* on with the next player
EventItemRaised(events, up) ==
    /\ eventRun.pc = "item"
    /\ LET out == index_player_events(Db, eventRun.indexed_event_ids, events, up)
       IN  /\ SetDb(out.db)
           /\ eventRun' = [eventRun EXCEPT
                  !.pc = "loop",
                  !.idx = @ + 1,
                  !.indexed_event_ids = out.indexed_event_ids,
                  !.outcomes = Append(@, "error")]
    /\ UNCHANGED <<event_indexing_status, game_indexing_status, gameRun>>
    /\ UNCHANGED <<lastCall, cacheVars, aggVars, gameVars, fetchVars, laterVars>>

\* index_season_games_with_status is called
index_season_games_with_status ==
    /\ gameRun.pc = "idle"
    /\ gameRun' = [IdleGameRun EXCEPT !.pc = "query"]
    /\ UNCHANGED <<event_indexing_status, game_indexing_status, eventRun>>
    /\ UNCHANGED notSeason

\* up to its loop: the events of the season that are not fully indexed
GameRunQuery ==
    /\ gameRun.pc = "query"
    /\ gameRun' = [gameRun EXCEPT
           !.pc = "loop",
           !.idx = 1,
           !.event_ids = SortedSeq({r.event_id : r \in
                             {x \in Rows(eventTbl) : ~x.games_fully_indexed}})]
    /\ game_indexing_status' = "running"
    /\ UNCHANGED <<event_indexing_status, eventRun>>
    /\ UNCHANGED notSeason

\* the top of the loop: the next event is taken up, or the run is completed
GameItemStart ==
    /\ gameRun.pc = "loop"
    /\ IF gameRun.idx <= Len(gameRun.event_ids)
       THEN /\ gameRun' = [gameRun EXCEPT !.pc = "item"]
            /\ UNCHANGED <<game_indexing_status, stopAsked>>
       ELSE /\ gameRun' = [IdleGameRun EXCEPT
                               !.event_ids = gameRun.event_ids,
                               !.outcomes = gameRun.outcomes]
            /\ game_indexing_status' = "completed"
            /\ stopAsked' = stopAsked \ {"games"}
    /\ UNCHANGED <<event_indexing_status, eventRun>>
    /\ UNCHANGED <<fetch_status, fetch_control, playerTbl, week, task>>
    /\ UNCHANGED <<eventVars, cacheVars, aggVars, gameVars, laterVars>>

\* the item has ended: skipped as fully indexed, or
\* discover_and_index_event_games has returned or raised; the handler of the
\* iteration goes on with the next event
GameItemDone ==
    /\ gameRun.pc = "item"
    /\ LET e == gameRun.event_ids[gameRun.idx]
           out == discover_and_index_event_games(eventTbl, e, TRUE)
       IN  gameRun' = [gameRun EXCEPT
               !.pc = "loop",
               !.idx = @ + 1,
               !.outcomes = Append(@,
                   IF EventOf(eventTbl, e).games_fully_indexed THEN "skipped"
                   ELSE IF out.raised THEN "error" ELSE "ok")]
    /\ UNCHANGED <<event_indexing_status, game_indexing_status, eventRun>>
    /\ UNCHANGED notSeason

InitRuns ==
    /\ event_indexing_status = None
    /\ game_indexing_status = None
    /\ eventRun = IdleEventRun
    /\ gameRun = IdleGameRun

\* the season after a completed player fetch of the first week, both roster
\* players stored: a state SpecFetch reaches
AfterCompletedFetch ==
    /\ fetch_status = "completed"
    /\ fetch_control = None
    /\ playerTbl = SetToBag({PlayerRow("p1", 1), PlayerRow("p2", 1)})
    /\ week = 1
    /\ task = [t \in Tasks |-> IdleTask]
    /\ stopAsked = {}

\* the season runs start from there, with nothing indexed yet
InitSeason ==
    /\ InitEvent
    /\ InitCache
    /\ InitAgg
    /\ InitGames
    /\ InitRuns
    /\ AfterCompletedFetch
    /\ InitFetcher
    /\ InitPlayerDataRun
    /\ InitCommit
    /\ InitProbe
    /\ InitEventsRun
    /\ InitFilter
    /\ InitRecords
    /\ InitStats

NextSeason ==
    \/ pause_fetch
    \/ resume_fetch
    \/ stop_fetch
    \/ \E skip_processed \in BOOLEAN : index_events_for_season(skip_processed)
    \/ EventRunQuery
    \/ EventItemStart
    \/ \E events \in PlayerEventLists : \E up \in Upstreams :
          EventItemDone(events, up)
    \/ \E events \in PlayerEventLists : \E up \in Upstreams :
          EventItemRaised(events, up)
    \/ index_season_games_with_status
    \/ GameRunQuery
    \/ GameItemStart
    \/ GameItemDone

\* -------------------------------------------------- Season runs: properties
StartsEventItem == eventRun.pc # "item" /\ eventRun'.pc = "item"

StartsGameItem == gameRun.pc # "item" /\ gameRun'.pc = "item"

\* C6: a run of any of the three kinds that was running when stop was
\* requested (and the request was not replaced by a later pause or resume)
\* starts no further item.
C6_StopPreventsNextItem ==
    [][/\ \A t \in stopAsked \cap Tasks : ~StartsPlayer(t)
       /\ "events" \in stopAsked => ~StartsEventItem
       /\ "games" \in stopAsked => ~StartsGameItem
      ]_vars

\* ------------------------------------------------ The three season-level runs
\* The event run, the game run and the caching pass over the players, without
\* the control endpoints.  The caching pass reads and writes the response
\* cache and nothing else, and the two indexing runs never touch the cache
\* (they fetch through fetcher.py): the behaviours taken are those of the
\* indexing runs, interleaved, and those of the caching pass, and not the
\* interleavings of the pass with the runs.
NoIndexingRun ==
    /\ eventRun = IdleEventRun
    /\ gameRun = IdleGameRun
    /\ event_indexing_status = None
    /\ game_indexing_status = None

NoCachingPass == cache_indexing_status = None

\* what the requests of the caching pass are answered with
ItemResponses == {r \in Responses : r.code # 200 \/ r.body = OkRows}

NextRuns ==
    \/ /\ NoCachingPass
       /\ \E skip_processed \in BOOLEAN : index_events_for_season(skip_processed)
    \/ EventRunQuery
    \/ EventItemStart
    \/ \E events \in PlayerEventLists : \E up \in Upstreams :
          EventItemDone(events, up)
    \/ \E events \in PlayerEventLists : \E up \in Upstreams :
          EventItemRaised(events, up)
    \/ (NoCachingPass /\ index_season_games_with_status)
    \/ GameRunQuery
    \/ GameItemStart
    \/ GameItemDone
    \/ (NoIndexingRun /\ index_acl_players)
    \/ \E resp \in ItemResponses : PlayerDataStandings(resp)
    \/ \E statsResp, eventsResp \in ItemResponses :
          PlayerDataItem(statsResp, eventsResp)
    \/ PlayerDataFinish

\* A started run is a task of the event loop: each of its steps is taken in
\* the end, every request and query it awaits returning or raising (the
\* requests have a timeout).
RunsFairness ==
    /\ WF_vars(EventRunQuery)
    /\ WF_vars(EventItemStart)
    /\ WF_vars(\E events \in PlayerEventLists : \E up \in Upstreams :
                  EventItemDone(events, up) \/ EventItemRaised(events, up))
    /\ WF_vars(GameRunQuery)
    /\ WF_vars(GameItemStart)
    /\ WF_vars(GameItemDone)
    /\ WF_vars(\E resp \in ItemResponses : PlayerDataStandings(resp))
    /\ WF_vars(\E statsResp, eventsResp \in ItemResponses :
                  PlayerDataItem(statsResp, eventsResp))
    /\ WF_vars(PlayerDataFinish)

\* how many items ended with outcome o
Count(outcomes, o) == Cardinality({k \in DOMAIN outcomes : outcomes[k] = o})

Terminal == {"completed", "error"}

\* the end of an item, whatever its outcome, leaves the run in its loop at
\* the next position of the same list
ItemEndsInLoop ==
    /\ (eventRun.pc = "item" /\ eventRun' # eventRun)
          => /\ eventRun'.pc = "loop"
             /\ eventRun'.idx = eventRun.idx + 1
             /\ eventRun'.player_ids = eventRun.player_ids
    /\ (gameRun.pc = "item" /\ gameRun' # gameRun)
          => /\ gameRun'.pc = "loop"
             /\ gameRun'.idx = gameRun.idx + 1
             /\ gameRun'.event_ids = gameRun.event_ids
    /\ (/\ playerDataRun.pc = "loop"
        /\ playerDataRun.i <= Len(playerDataRun.player_list)
        /\ playerDataRun' # playerDataRun)
          => /\ playerDataRun'.pc = "loop"
             /\ playerDataRun'.i = playerDataRun.i + 1
             /\ playerDataRun'.player_list = playerDataRun.player_list

\* a run that has ended "completed" has an outcome for every item of its
\* list, and the caching pass has counted its errors
SummaryIsComplete ==
    /\ (eventRun.pc = "idle" /\ event_indexing_status = "completed")
          => Len(eventRun.outcomes) = Len(eventRun.player_ids)
    /\ (gameRun.pc = "idle" /\ game_indexing_status = "completed")
          => Len(gameRun.outcomes) = Len(gameRun.event_ids)
    /\ (playerDataRun.pc = "idle" /\ cache_indexing_status = "completed")
          => /\ Len(playerDataRun.outcomes) = Len(playerDataRun.player_list)
             /\ playerDataRun.errors = Count(playerDataRun.outcomes, "error")
             /\ playerDataRun.processed_players <= Len(playerDataRun.player_list)

PassWithError ==
    /\ playerDataRun.pc = "idle"
    /\ cache_indexing_status = "completed"
    /\ playerDataRun.outcomes = <<"error", "ok">>
    /\ playerDataRun.errors = 1

\* ------------------------------------------- Season event run, resumed
\* The event run of a season taken up again after it was cut short.  The
\* upstream of the season is fixed: the events list of each roster player.

\* fetch_player_events_list of player p: p1 took part in events 1 and 2, every
\* other player in event 1 (none of them local)
UpstreamEventsList(p) == IF p = "p1" THEN {1, 2} ELSE {1}

\* the upstreams whose event info is answered: index_event stores the event
IndexableUpstreams == {up \in Upstreams : up.info # None}

\* the player of the item the run is at
CurrentPlayer == eventRun.player_ids[eventRun.idx]

\* the task is cancelled while it awaits index_player_events, after the
\* events `events` of the player's list: CancelledError is no Exception, so
\* neither handler runs, the status entry is left as it is and what
\* index_event committed stays
EventRunInterrupted(events, up) ==
    /\ eventRun.pc = "item"
    /\ LET out == index_player_events(Db, eventRun.indexed_event_ids, events, up)
       IN  SetDb(out.db)
    /\ eventRun' = IdleEventRun
    /\ UNCHANGED <<event_indexing_status, game_indexing_status, gameRun>>
    /\ UNCHANGED <<lastCall, cacheVars, aggVars, gameVars, fetchVars, laterVars>>

NextResume ==
    \/ \E skip_processed \in BOOLEAN : index_events_for_season(skip_processed)
    \/ EventRunQuery
    \/ EventItemStart
    \/ /\ eventRun.pc = "item"
       /\ \E up \in IndexableUpstreams :
             EventItemDone(UpstreamEventsList(CurrentPlayer), up)
    \/ /\ eventRun.pc = "item"
       /\ \E events \in SUBSET UpstreamEventsList(CurrentPlayer) :
             \E up \in IndexableUpstreams : EventItemRaised(events, up)
    \/ /\ eventRun.pc = "item"
       /\ \E events \in SUBSET UpstreamEventsList(CurrentPlayer) :
             \E up \in IndexableUpstreams : EventRunInterrupted(events, up)

\* C37: when a run with skip_processed goes through its list and ends without
\* an item error, every event of the events list of every player of the list
\* is indexed.
C37_ResumedRunIndexesEveryEvent ==
    [][(/\ eventRun.pc = "loop"
        /\ eventRun'.pc = "idle"
        /\ eventRun.skip_processed
        /\ \A k \in DOMAIN eventRun'.outcomes :
              eventRun'.outcomes[k] # "error")
          => \A p \in Range(eventRun.player_ids) :
                \A e \in UpstreamEventsList(p) : is_event_indexed(eventTbl', e)
      ]_vars

\* =========================================================================
\* Specifications: one per component.  All start from the empty store but
\* SpecSeason, whose runs read the players a completed fetch has stored.
\* =========================================================================
\* =========================================================================
\* Caching pass over the events of a season
\*   (src/acl_cache_indexer.py index_all_events_for_season)
\* =========================================================================

\* the events list the upstream has for player p: p took part in events 1..p
PlayerEventIds(p) == 1..p

\* the event ids of the "data" list of a player-events response of player p
EventIdsOfList(p, json) == IF json = OkRows THEN PlayerEventIds(p) ELSE {}

\* the cached entries of one endpoint type
CachedOf(cache, op) == {r \in Rows(cache) : r.url[1] = op}

RECURSIVE FetchEventsLists(_, _, _)
\* strategy 2: index_player_events_list for each player of the cached
\* standings; an exception is printed and the loop goes on
FetchEventsLists(st, player_list, resps) ==
    IF player_list = <<>> THEN st
    ELSE LET p == Head(player_list)
             out == index_player_events_list(st.cache, Url("player_events", p),
                                             TRUE, resps[p])
             events_list == IF TruthyRet(out.ret)
                            THEN EventIdsOfList(p, out.ret.json) ELSE {}
         IN FetchEventsLists([cache |-> out.cache,
                              event_ids |-> st.event_ids \cup events_list,
                              failed |-> st.failed \/ ~TruthyRet(out.ret)],
                             Tail(player_list), resps)

\* POST /api/acl-cache/index-events/{bucket_id}: the task starts and sets its
\* status entry
index_acl_events ==
    /\ eventsRun.pc = "idle"
    /\ eventsRun' = [IdleEventsRun EXCEPT !.pc = "discover", !.status = "running"]
    /\ UNCHANGED cacheTbl
    /\ UNCHANGED notEventsRun

\* the discovery of event_ids: from the cached player-events lists if there
\* is any, else from the lists of the players of the cached standings
EventsDiscover(resps) ==
    /\ eventsRun.pc = "discover"
    /\ LET cached_events_lists == CachedOf(cacheTbl, "player_events")
           standings_entry == CachedOf(cacheTbl, "standings")
           player_list == PlayerList(Ret("response",
                              (CHOOSE r \in standings_entry : TRUE).response_json))
           roster == IF standings_entry = {} THEN {}
                     ELSE {player_list[k] : k \in DOMAIN player_list}
           fetched == FetchEventsLists([cache |-> cacheTbl, event_ids |-> {},
                                        failed |-> FALSE], player_list, resps)
       IN IF cached_events_lists # {}
          THEN /\ eventsRun' = [eventsRun EXCEPT
                      !.pc = "loop", !.strategy = 1, !.roster = roster,
                      !.event_ids = UNION {EventIdsOfList(r.url[2], r.response_json) :
                                              r \in cached_events_lists},
                      !.event_list = SortedSeq(UNION {EventIdsOfList(r.url[2], r.response_json) :
                                              r \in cached_events_lists})]
               /\ UNCHANGED cacheTbl
          ELSE IF standings_entry # {}
          THEN /\ eventsRun' = [eventsRun EXCEPT
                      !.pc = "loop", !.strategy = 2, !.roster = roster,
                      !.event_ids = fetched.event_ids,
                      !.failed = fetched.failed,
                      !.event_list = SortedSeq(fetched.event_ids)]
               /\ cacheTbl' = fetched.cache
          ELSE /\ eventsRun' = [eventsRun EXCEPT !.pc = "idle", !.status = "error"]
               /\ UNCHANGED cacheTbl
    /\ UNCHANGED notEventsRun

\* the four cached fetch operations of one event of the loop
EventDataOps == {"event_info", "event_player_stats", "event_standings", "bracket_data"}

RECURSIVE IndexEventData(_, _, _, _)
\* index_event_info, index_event_player_stats, index_event_standings and
\* index_bracket_data of one event, in this order; an exception of one ends
\* the event's iteration
IndexEventData(cache, e, ops, up) ==
    IF ops = <<>> THEN cache
    ELSE LET op == Head(ops)
             url == Url(op, e)
             out == IF op = "bracket_data"
                    THEN index_bracket_data(cache, url, TRUE, up[op])
                    ELSE IndexDataEndpoint(cache, url, TRUE, up[op])
         IN IF out.ret = Raises THEN out.cache
            ELSE IndexEventData(out.cache, e, Tail(ops), up)

\* one iteration of `for i, event_id in enumerate(event_list)`
EventsItem(up) ==
    /\ eventsRun.pc = "loop"
    /\ eventsRun.processed_events < Len(eventsRun.event_list)
    /\ LET e == eventsRun.event_list[eventsRun.processed_events + 1]
       IN cacheTbl' = IndexEventData(cacheTbl, e,
                          <<"event_info", "event_player_stats",
                            "event_standings", "bracket_data">>, up)
    /\ eventsRun' = [eventsRun EXCEPT !.processed_events = @ + 1]
    /\ UNCHANGED notEventsRun

\* the loop has ended: the final commit and the status "completed"
EventsFinish ==
    /\ eventsRun.pc = "loop"
    /\ eventsRun.processed_events = Len(eventsRun.event_list)
    /\ eventsRun' = [eventsRun EXCEPT !.pc = "idle", !.status = "completed"]
    /\ UNCHANGED cacheTbl
    /\ UNCHANGED notEventsRun

\* what the upstream answers the requests of one event with: it has the
\* resource or it has not
EventDataResponses ==
    {r \in Responses : r.code = 404 \/ (r.code = 200 /\ r.body = OkRows)}

\* the players pass and the events pass, both background tasks of their
\* endpoints, are free to interleave
NextDiscover ==
    \/ index_acl_players
    \/ \E resp \in ItemResponses : PlayerDataStandings(resp)
    \/ \E statsResp, eventsResp \in ItemResponses :
          PlayerDataItem(statsResp, eventsResp)
    \/ PlayerDataFinish
    \/ index_acl_events
    \/ \E resps \in [CachePlayerIds -> ItemResponses] : EventsDiscover(resps)
    \/ \E up \in [EventDataOps -> EventDataResponses] : EventsItem(up)
    \/ EventsFinish

\* ------------------------------------------ Events pass: properties
\* the event ids of the events lists of the players of the roster
RosterEventIds == UNION {PlayerEventIds(p) : p \in eventsRun.roster}

\* C22: when every list the pass takes is had, the event ids it processes are
\* exactly those of the events lists of the roster's players, whether they
\* are read from cached lists or fetched player by player, also when only
\* some of the players' lists are cached.
C22_DiscoversRosterEvents ==
    (eventsRun.strategy # 0 /\ ~eventsRun.failed)
        => eventsRun.event_ids = RosterEventIds

\* =========================================================================
\* The event filter of the discovery paths
\*   (src/event_indexer.py index_player_events, index_player_events_local,
\*    src/acl_cache_indexer.py index_all_events_for_season)
\* =========================================================================

\* leagueName of an entry, by what the filters look for in it: "Final" or
\* "final" as a substring, "Open #2 Winter Haven" as a substring
EventNames ==
    {"Open #2 Winter Haven Tier 1 Singles Final", "Tier 1 Singles Final",
     "Semifinal Blind Draw", "Tier 1 Singles Bracket A"}

HasFinal(event_name) ==
    event_name \in {"Open #2 Winter Haven Tier 1 Singles Final",
                    "Tier 1 Singles Final", "Semifinal Blind Draw"}

HasOpen2WinterHaven(event_name) ==
    event_name = "Open #2 Winter Haven Tier 1 Singles Final"

\* one entry of a player's events list: whether it has an event id, its
\* eventType, its leagueName, and whether its id is one of
\* OPEN_2_WINTER_HAVEN_EVENT_IDS
EventEntries ==
    [has_id : BOOLEAN, eventType : {"L", "O", "R", None}, leagueName : EventNames,
     in_target : BOOLEAN]

\* fetcher.py detect_event_type for an entry: the API type decides when there
\* is one; the detection by name gives "signature", "open", "regional" or
\* "unknown", none of which the filters ask for
detect_event_type(event_name, event_data) ==
    CASE event_data.eventType = "O" -> "open"
      [] event_data.eventType = "R" -> "regional"
      [] event_data.eventType = "L" -> "local"
      [] OTHER -> "unknown"

\* index_player_events: the entry is given to index_event (it is not skipped
\* before); the check of indexed_event_ids is left to index_event's own
PassesPlayerEvents(event_data) ==
    LET api_event_type == event_data.eventType
        event_name == event_data.leagueName
        is_final == HasFinal(event_name)
        detected_type == detect_event_type(event_name, event_data)
    IN /\ event_data.has_id
       /\ ~(api_event_type = "L" /\ ~is_final)
       /\ ~(detected_type = "local" /\ ~is_final)

\* index_player_events_local
PassesPlayerEventsLocal(event_data) ==
    LET api_event_type == event_data.eventType
        event_name == event_data.leagueName
        is_final == HasFinal(event_name)
        is_open_2_winter_haven == HasOpen2WinterHaven(event_name)
        detected_type == detect_event_type(event_name, event_data)
    IN /\ event_data.has_id
       /\ event_data.in_target
       /\ ~(api_event_type = "L" /\ ~(is_final /\ is_open_2_winter_haven))
       /\ ~(detected_type = "local" /\ ~(is_final /\ is_open_2_winter_haven))

\* index_all_events_for_season: every entry with an event id is processed
PassesCachePass(event_data) == event_data.has_id

Looked(path, event_data, passed) ==
    /\ discovered' = [path |-> path, entry |-> event_data, passed |-> passed]
    /\ UNCHANGED notFilter

PlayerEventsEntry(event_data) ==
    Looked("index_player_events", event_data, PassesPlayerEvents(event_data))

PlayerEventsLocalEntry(event_data) ==
    Looked("index_player_events_local", event_data,
           PassesPlayerEventsLocal(event_data))

CachePassEntry(event_data) ==
    Looked("index_all_events_for_season", event_data, PassesCachePass(event_data))

NextFilter ==
    \E event_data \in EventEntries :
        \/ PlayerEventsEntry(event_data)
        \/ PlayerEventsLocalEntry(event_data)
        \/ CachePassEntry(event_data)

\* ------------------------------------------ Event filter: properties
\* a local event whose name does not indicate a final
LocalNonFinal(event_data) ==
    event_data.eventType = "L" /\ ~HasFinal(event_data.leagueName)

\* C23: on every discovery path an entry that has an event id is left out
\* exactly when it is a local event whose name does not indicate a final.
C23_OnlyLocalNonFinalsExcluded ==
    (discovered.path # "none" /\ discovered.entry.has_id)
        => (discovered.passed <=> ~LocalNonFinal(discovered.entry))

\* ------------------------------------------------ index_event, record by record
\* The payloads of one event seen record by record: the player stats list and
\* the standings list are the "data" lists of their responses, the matches are
\* those of the one round of the bracket payload.

\* wins and losses of a standings record are 0..MaxWins or missing
MaxWins == 1

StandingWins == Opt(0..MaxWins)

RecordPlayers == {1, 2}

\* an entry of a payload list that is not a JSON object: its .get raises
NotAnObject == [kind |-> "not_object"]

\* a player stats record; ranking, wins and winPct are the feed's own values
StatsRecord(p, ranking, wins, winPct) ==
    [kind |-> "object", playerID |-> p, ranking |-> ranking, wins |-> wins,
     winPct |-> winPct]

StandingRecord(p, fldEventRank, fldEventPos, wins, losses) ==
    [kind |-> "object", playerID |-> p, fldEventRank |-> fldEventRank,
     fldEventPos |-> fldEventPos, wins |-> wins, losses |-> losses]

MatchRecord(p1, p2) ==
    [kind |-> "object", player1ID |-> p1, player2ID |-> p2, winnerID |-> p1]

\* a or b of two optional numbers: the first that is present and not 0
OrElse(a, b) == IF a.some /\ a.v # 0 THEN a ELSE b

\* (wins / total) * 100 as the fraction it is
Percent(wins, total) == <<wins * 100, total>>

\* two fractions with positive denominators are the same number
SameNumber(x, y) == x[1] * y[2] = y[1] * x[2]

parse_player_event_stats(stats_data, event_id) ==
    [event_id |-> event_id, player_id |-> stats_data.playerID, rank |-> Absent,
     wins |-> Absent, losses |-> Absent, win_pct |-> Absent]

\* the rank the standings give a player
event_rank(standing) == OrElse(standing.fldEventRank, standing.fldEventPos)

\* standings_dict of index_event: the last record of each player wins
StandingsDict(standings_list) ==
    [p \in RecordPlayers |->
        LET ks == {k \in DOMAIN standings_list : standings_list[k].playerID = p}
            last == CHOOSE k \in ks : \A j \in ks : j <= k
        IN IF ks = {} THEN Absent
           ELSE Some([rank |-> event_rank(standings_list[last]),
                      wins |-> standings_list[last].wins,
                      losses |-> standings_list[last].losses])]

\* win_pct is left alone
MergeStandingsNoPct(stats_record, standings_dict) ==
    IF ~standings_dict[stats_record.player_id].some THEN stats_record
    ELSE LET standing_info == standings_dict[stats_record.player_id].v
             r1 == IF standing_info.rank.some
                   THEN [stats_record EXCEPT !.rank = standing_info.rank]
                   ELSE stats_record
             r2 == IF standing_info.wins.some
                   THEN [r1 EXCEPT !.wins = standing_info.wins] ELSE r1
         IN IF standing_info.losses.some
            THEN [r2 EXCEPT !.losses = standing_info.losses] ELSE r2

\* the merge of the standings into a parsed stats record
MergeStandings(stats_record, standings_dict) ==
    IF ~standings_dict[stats_record.player_id].some THEN stats_record
    ELSE LET standing_info == standings_dict[stats_record.player_id].v
             r1 == IF standing_info.rank.some
                   THEN [stats_record EXCEPT !.rank = standing_info.rank]
                   ELSE stats_record
             r2 == IF standing_info.wins.some
                   THEN [r1 EXCEPT !.wins = standing_info.wins] ELSE r1
             r3 == IF standing_info.losses.some
                   THEN [r2 EXCEPT !.losses = standing_info.losses] ELSE r2
         IN IF standing_info.losses.some /\ r3.wins.some /\ r3.losses.some
               /\ r3.wins.v + r3.losses.v > 0
            THEN [r3 EXCEPT !.win_pct =
                      Some(Percent(r3.wins.v, r3.wins.v + r3.losses.v))]
            ELSE r3

\* the stats loop: a record whose parsing raises is skipped, one without a
\* player id adds nothing
StatsRows(stats_list, standings_dict, event_id) ==
    {MergeStandings(parse_player_event_stats(stats_list[k], event_id),
                    standings_dict) :
        k \in {j \in DOMAIN stats_list :
                  /\ stats_list[j] # NotAnObject
                  /\ stats_list[j].playerID # 0}}

\* parse_bracket_matchups skips a match without both players
parse_bracket_matchups(matches, event_id) ==
    {[event_id |-> event_id, player1_id |-> matches[k].player1ID,
      player2_id |-> matches[k].player2ID, winner_id |-> matches[k].winnerID] :
        k \in {j \in DOMAIN matches :
                  matches[j].player1ID # 0 /\ matches[j].player2ID # 0}}

parse_event_standings(standings_data, event_id) ==
    {[event_id |-> event_id, player_id |-> standings_data[k].playerID,
      final_rank |-> event_rank(standings_data[k])] :
        k \in {j \in DOMAIN standings_data : standings_data[j].playerID # 0}}

HasNotAnObject(list) == \E k \in DOMAIN list : list[k] = NotAnObject

\* two records of one list for the same player break uq_event_player
SamePlayerTwice(list) ==
    \E j, k \in DOMAIN list :
        /\ j # k
        /\ list[j] # NotAnObject /\ list[k] # NotAnObject
        /\ list[j].playerID # 0
        /\ list[j].playerID = list[k].playerID

\* what index_event leaves of a fresh event whose event info was fetched: the
\* standings loop, parse_bracket_matchups and parse_event_standings run outside
\* every per-record handler, so what they raise reaches the outer handler
IndexEventRecords(stats_list, standings_list, matches, event_id) ==
    IF \/ HasNotAnObject(standings_list)
       \/ HasNotAnObject(matches)
       \/ SamePlayerTwice(stats_list)
       \/ SamePlayerTwice(standings_list)
    THEN [result |-> FALSE, event_stored |-> FALSE, pes |-> {}, standings |-> {},
          matchups |-> {}]
    ELSE [result |-> TRUE, event_stored |-> TRUE,
          pes |-> StatsRows(stats_list, StandingsDict(standings_list), event_id),
          standings |-> parse_event_standings(standings_list, event_id),
          matchups |-> parse_bracket_matchups(matches, event_id)]

IndexEventOfRecords(stats_list, standings_list, matches) ==
    /\ recordCall' =
           [op |-> "index_event", stats_list |-> stats_list,
            standings_list |-> standings_list, matches |-> matches]
           @@ IndexEventRecords(stats_list, standings_list, matches, 1)
    /\ UNCHANGED notRecords

\* lists of at most two entries, the k-th drawn from S[k]
ShortLists(S) ==
    {<<>>} \cup {<<a>> : a \in S[1]} \cup {<<a, b>> : a \in S[1], b \in S[2]}

\* one stats record against one standings record, over all their values
ValuedStats ==
    {StatsRecord(1, ranking, wins, winPct) :
        ranking \in {1, 2}, wins \in {0, 1}, winPct \in {0, 100}}

ValuedStandings ==
    {StandingRecord(p, r, pos, w, l) :
        p \in RecordPlayers, r \in Opt({0, 2}), pos \in Opt({3}),
        w \in StandingWins, l \in StandingWins}

\* the k-th entry of a list is a record of player k or not an object
ListedStats ==
    ShortLists([k \in RecordPlayers |-> {NotAnObject, StatsRecord(k, 1, 0, 0)}])

ListedStandings ==
    ShortLists([k \in RecordPlayers |->
        {NotAnObject, StandingRecord(k, Some(k), Absent, Some(1), Some(0))}])

ListedMatches ==
    ShortLists([k \in RecordPlayers |-> {NotAnObject, MatchRecord(k, 3 - k)}])

NextRecords ==
    \/ \E stats \in ValuedStats, standing \in ValuedStandings :
           IndexEventOfRecords(<<stats>>, <<standing>>, <<>>)
    \/ \E stats_list \in ListedStats, standings_list \in ListedStandings,
          matches \in ListedMatches :
           IndexEventOfRecords(stats_list, standings_list, matches)

\* ---------------------------------------- index_event, record by record: properties
\* the rows index_event wrote for players the standings list
RowsOfListedPlayers ==
    {row \in recordCall.pes :
        StandingsDict(recordCall.standings_list)[row.player_id].some}

ListedStanding(row) == StandingsDict(recordCall.standings_list)[row.player_id].v

\* C24 as stated: every PlayerEventStats row of a player in the standings has the
\* standings' rank, wins and losses, and its win_pct is wins / (wins + losses)
C24_WinPctIsTheRatio ==
    (recordCall.op = "index_event" /\ recordCall.result) =>
        \A row \in RowsOfListedPlayers :
            /\ row.rank = ListedStanding(row).rank
            /\ row.wins = ListedStanding(row).wins
            /\ row.losses = ListedStanding(row).losses
            /\ (row.wins.some /\ row.losses.some) =>
                   /\ row.win_pct.some
                   /\ SameNumber(row.win_pct.v,
                                 <<row.wins.v, row.wins.v + row.losses.v>>)

\* C24: every PlayerEventStats row of a player in the standings has the
\* standings' rank, wins and losses whatever the stats payload carries; its
\* win_pct is the percentage 100 * wins / (wins + losses) of those values when
\* both are present and wins + losses > 0, and is empty otherwise
C24_StandingsOverrideStats ==
    (recordCall.op = "index_event" /\ recordCall.result) =>
        \A row \in RowsOfListedPlayers :
            /\ row.rank = ListedStanding(row).rank
            /\ row.wins = ListedStanding(row).wins
            /\ row.losses = ListedStanding(row).losses
            /\ IF row.wins.some /\ row.losses.some
                  /\ row.wins.v + row.losses.v > 0
               THEN /\ row.win_pct.some
                    /\ SameNumber(row.win_pct.v,
                                  <<100 * row.wins.v, row.wins.v + row.losses.v>>)
               ELSE row.win_pct = Absent

\* a row whose stats record carries other values than the standings, with a
\* percentage computed from the standings
C24_Witness ==
    /\ recordCall.op = "index_event" /\ recordCall.result
    /\ \E row \in RowsOfListedPlayers :
           /\ row.wins = Some(1) /\ row.losses = Some(1)
           /\ row.rank = Some(2)
           /\ row.win_pct = Some(<<100, 2>>)
           /\ recordCall.stats_list[1].wins = 0
           /\ recordCall.stats_list[1].ranking = 1
           /\ recordCall.stats_list[1].winPct = 100

\* the players of the well-formed records of a list
WellFormedPlayers(list) ==
    {list[k].playerID : k \in {j \in DOMAIN list : list[j] # NotAnObject}}

WellFormedMatches(list) ==
    {list[k].player1ID : k \in {j \in DOMAIN list : list[j] # NotAnObject}}

\* C25: a malformed player stats, standings or matchup record is skipped:
\* index_event returns success and stores the Event and every well-formed record
C25_MalformedRecordIsSkipped ==
    recordCall.op = "index_event" =>
        /\ recordCall.result
        /\ recordCall.event_stored
        /\ {row.player_id : row \in recordCall.pes}
               = WellFormedPlayers(recordCall.stats_list)
        /\ {row.player_id : row \in recordCall.standings}
               = WellFormedPlayers(recordCall.standings_list)
        /\ {row.player1_id : row \in recordCall.matchups}
               = WellFormedMatches(recordCall.matches)

\* ------------------------------------------- cross-bracket ranking of a group
\* calculate_event_aggregated_stats after the aggregation of the games: the
\* players of a group of singles brackets, player k playing in bracket k. A
\* player has the totals of the games and, from the standings of the bracket,
\* a bracket rank (none without a standings row).

\* bracket ranks are 1..MaxBracketRank
MaxBracketRank == 3

\* total points of a player are 1..MaxPoints
MaxPoints == 2

RoundCounts == {1, 2}

GroupSizes == {2, 3}

\* the group of four brackets
WinnerGroup == {1, 2, 3, 4}

PlayerTotals ==
    [rank : Opt(1..MaxBracketRank), total_points : 1..MaxPoints,
     total_rounds : RoundCounts, wins : {0, 1}, games_played : {1}]

WinnerTotals ==
    [rank : {Some(1)}, total_points : 1..MaxPoints, total_rounds : RoundCounts,
     wins : {1}, games_played : {1}]

\* the groups whose ranks are computed
RankedGroups ==
    UNION {[1..n -> PlayerTotals] : n \in GroupSizes}
        \cup [WinnerGroup -> WinnerTotals]

\* the totals of a player of a doubles team that finished at `rank`
DoublesTotals(rank) ==
    [rank : {Some(rank)}, total_points : 1..MaxPoints,
     total_rounds : RoundCounts, wins : {2 - rank}, games_played : {1}]

\* one doubles bracket of two teams: players 1 and 2 are the team that
\* finished first, players 3 and 4 the team that finished second; the
\* standings give both partners of a team the team's rank
DoublesGroups ==
    {g \in [WinnerGroup -> DoublesTotals(1) \cup DoublesTotals(2)] :
        \A pid \in WinnerGroup :
            g[pid].rank = Some(IF pid <= 2 THEN 1 ELSE 2)}

\* stats["ppr"] and stats["win_pct"] as the fractions they are
ppr(stats) ==
    IF stats.total_rounds > 0 THEN <<stats.total_points, stats.total_rounds>>
    ELSE <<0, 1>>

win_pct(stats) ==
    IF stats.games_played > 0 THEN <<stats.wins, stats.games_played>>
    ELSE <<0, 1>>

\* x > y for two fractions with positive denominators
Greater(x, y) == x[1] * y[2] > y[1] * x[2]

\* the orders in which a set can be iterated
IterationOrders(S) ==
    {order \in [1..Cardinality(S) -> S] :
        \A i, j \in 1..Cardinality(S) : order[i] = order[j] => i = j}

PlayersAtRank(player_stats, rank) ==
    {pid \in DOMAIN player_stats : player_stats[pid].rank = Some(rank)}

\* an overall rank: a number, the label "T-<number>" or "T-2nd in bracket"
Rank(n) == [label |-> "", rank |-> n]

Tied(n) == [label |-> "T-", rank |-> n]

TiedSecondInBracket == [label |-> "T-2nd in bracket", rank |-> 0]

\* list.sort(key=ppr, reverse=True): stable, so winners of equal PPR keep the
\* order in which list(set(bracket_winners)) gave them
RECURSIVE SortWinners(_, _)
SortWinners(winners, player_stats) ==
    IF winners = <<>> THEN <<>>
    ELSE LET rest == SortWinners(SubSeq(winners, 1, Len(winners) - 1),
                                 player_stats)
             pid == winners[Len(winners)]
             after == {k \in DOMAIN rest :
                          Greater(ppr(player_stats[pid]),
                                  ppr(player_stats[rest[k]]))}
             at == IF after = {} THEN Len(rest) + 1
                   ELSE CHOOSE k \in after : \A j \in after : k <= j
         IN SubSeq(rest, 1, at - 1) \o <<pid>> \o SubSeq(rest, at, Len(rest))

\* the winners are left in the order of the iteration
bracket_winners_unsorted(set_order, player_stats) == set_order

\* bracket_winners after list(set(bracket_winners)) and the sort by PPR
bracket_winners(set_order, player_stats) == SortWinners(set_order, player_stats)

\* the loop over the bracket ranks above 2: the players of a rank share the
\* label T-<overall_rank>, a single player gets the number
RECURSIVE RankLoop(_, _, _, _)
RankLoop(player_stats, rank, overall_rank, overall_ranks) ==
    IF rank > MaxBracketRank THEN [next |-> overall_rank, ranks |-> overall_ranks]
    ELSE LET rank_players == PlayersAtRank(player_stats, rank)
             n == Cardinality(rank_players)
         IN RankLoop(player_stats, rank + 1, overall_rank + n,
                [pid \in DOMAIN overall_ranks |->
                    IF pid \notin rank_players THEN overall_ranks[pid]
                    ELSE IF n > 1 THEN Tied(overall_rank)
                    ELSE Rank(overall_rank)])

\* overall_ranks of calculate_event_aggregated_stats; set_order is the order in
\* which list(set(bracket_winners)) gives the winners
OverallRanks(player_stats, num_brackets, set_order) ==
    LET winners == bracket_winners(set_order, player_stats)
        first == IF Len(winners) > 0 THEN {winners[1]} ELSE {}
        second == IF Len(winners) > 1 THEN {winners[2]} ELSE {}
        remaining_winners == Range(winners) \ (first \cup second)
        rank_after_winners ==
            1 + Cardinality(first) + Cardinality(second)
        rank_2_players == PlayersAtRank(player_stats, 2)
        rank_after_seconds ==
            rank_after_winners + Cardinality(remaining_winners)
        lower == RankLoop(player_stats, 3,
                     rank_after_seconds + Cardinality(rank_2_players),
                     [pid \in DOMAIN player_stats |-> Rank(0)])
    IN [pid \in DOMAIN player_stats |->
           IF pid \in first THEN Rank(1)
           ELSE IF pid \in second THEN Rank(2)
           ELSE IF pid \in remaining_winners THEN Tied(rank_after_winners)
           ELSE IF pid \in rank_2_players
                THEN IF num_brackets = 2 THEN TiedSecondInBracket
                     ELSE Tied(rank_after_seconds)
           ELSE IF player_stats[pid].rank.some THEN lower.ranks[pid]
           ELSE Tied(lower.next)]

\* the games and standings of a group of num_brackets brackets are indexed
StoreGroup(player_stats, num_brackets) ==
    /\ rankCall.op = "none"
    /\ rankCall' = [op |-> "stored", player_stats |-> player_stats,
                    num_brackets |-> num_brackets, overall_ranks |-> <<>>]
    /\ UNCHANGED <<notStats, tallyVars, partnerVars>>

CalculateEventAggregatedStats(set_order) ==
    /\ rankCall.op # "none"
    /\ rankCall' =
           [op |-> "calculated", player_stats |-> rankCall.player_stats,
            num_brackets |-> rankCall.num_brackets,
            overall_ranks |->
                OverallRanks(rankCall.player_stats, rankCall.num_brackets,
                             set_order)]
    /\ UNCHANGED <<notStats, tallyVars, partnerVars>>

NextRanking ==
    \/ /\ rankCall.op = "none"
       /\ \E player_stats \in RankedGroups :
             StoreGroup(player_stats, Len(player_stats))
    \/ /\ rankCall.op = "none"
       /\ \E player_stats \in DoublesGroups : StoreGroup(player_stats, 1)
    \/ \E set_order \in IterationOrders(PlayersAtRank(rankCall.player_stats, 1)) :
           CalculateEventAggregatedStats(set_order)

\* -------------------------------- cross-bracket ranking of a group: properties
BracketWinners == PlayersAtRank(rankCall.player_stats, 1)

PprOf(pid) == ppr(rankCall.player_stats[pid])

\* C26: with several bracket winners, rank 1 goes to a winner of the highest
\* PPR, rank 2 to a winner of the highest PPR among the others, and every
\* remaining winner has the label T-3
C26_WinnersRankedByPpr ==
    (rankCall.op = "calculated" /\ Cardinality(BracketWinners) >= 2) =>
        \E w1, w2 \in BracketWinners :
            /\ w1 # w2
            /\ rankCall.overall_ranks[w1] = Rank(1)
            /\ rankCall.overall_ranks[w2] = Rank(2)
            /\ \A w \in BracketWinners : ~Greater(PprOf(w), PprOf(w1))
            /\ \A w \in BracketWinners \ {w1} : ~Greater(PprOf(w), PprOf(w2))
            /\ \A w \in BracketWinners \ {w1, w2} :
                   rankCall.overall_ranks[w] = Tied(3)

\* four brackets, PPR(W1) > PPR(W2) > PPR(W3) = PPR(W4), with W1 the last
\* player and the ranks 1, 2, T-3, T-3
C26_Witness ==
    /\ rankCall.op = "calculated"
    /\ DOMAIN rankCall.player_stats = WinnerGroup
    /\ BracketWinners = WinnerGroup
    /\ Greater(PprOf(4), PprOf(3))
    /\ Greater(PprOf(3), PprOf(2))
    /\ PprOf(2) = PprOf(1)
    /\ rankCall.overall_ranks =
           <<Tied(3), Tied(3), Rank(2), Rank(1)>>

\* C27: the ranks are a function of the stored records: calculating again over
\* the same records gives every player the same overall rank
C27_RanksAreDeterministic ==
    [][(rankCall.op = "calculated" /\ rankCall'.op = "calculated")
          => rankCall'.overall_ranks = rankCall.overall_ranks]_vars

\* a is better than b by PPR, then win percentage
BetterByPprThenWinPct(a, b) ==
    \/ Greater(PprOf(a), PprOf(b))
    \/ /\ ~Greater(PprOf(b), PprOf(a))
       /\ Greater(win_pct(rankCall.player_stats[a]),
                  win_pct(rankCall.player_stats[b]))

\* one overall rank is strictly better than another
StrictlyBetter(r1, r2) == r1.rank < r2.rank

\* C28: of two players at the same bracket position 3 or lower, the one with
\* the higher PPR, or the same PPR and the higher win percentage, has the
\* strictly better overall rank
C28_LowerPositionsTieBroken ==
    rankCall.op = "calculated" =>
        \A a, b \in DOMAIN rankCall.player_stats :
            (/\ rankCall.player_stats[a].rank.some
             /\ rankCall.player_stats[a].rank.v >= 3
             /\ rankCall.player_stats[b].rank = rankCall.player_stats[a].rank
             /\ BetterByPprThenWinPct(a, b))
            => StrictlyBetter(rankCall.overall_ranks[a],
                              rankCall.overall_ranks[b])

\* two players of a doubles bracket that share a final rank
RankPartners(a, b) ==
    /\ a # b
    /\ rankCall.player_stats[a].rank = rankCall.player_stats[b].rank

\* C40: in the ranking of a doubles bracket the two partners of a team have
\* the same overall rank
C40_PartnersShareOverallRank ==
    (rankCall.op = "calculated" /\ rankCall.player_stats \in DoublesGroups) =>
        \A a, b \in DOMAIN rankCall.player_stats :
            RankPartners(a, b)
                => rankCall.overall_ranks[a] = rankCall.overall_ranks[b]

\* ------------------------------------------ wins and losses of a singles game
\* The singles branch of the aggregation over the stored games of a bracket, the
\* same in calculate_bracket_stats and calculate_event_aggregated_stats.

\* the points of a player in a stored game are 0..MaxScore, or null
MaxScore == 2

\* at most MaxTallied games are aggregated
MaxTallied == 2

GameScores == Opt(0..MaxScore)

StoredSinglesGames ==
    {[player1_id |-> p, player2_id |-> 3 - p, player1_points |-> s1,
      player2_points |-> s2] : p \in {1, 2}, s1 \in GameScores, s2 \in GameScores}

\* the truth value of an optional number: None and 0 are false
ScoreTruthy(x) == x.some /\ x.v # 0

\* p["wins"] / p["losses"] of player 1 of the game
CreditPlayer1(p, game) ==
    LET played == [p EXCEPT !.games_played = @ + 1]
    IN IF ScoreTruthy(game.player1_points) /\ ScoreTruthy(game.player2_points)
       THEN IF game.player1_points.v > game.player2_points.v
            THEN [played EXCEPT !.wins = @ + 1]
            ELSE [played EXCEPT !.losses = @ + 1]
       ELSE played

CreditPlayer2(p, game) ==
    LET played == [p EXCEPT !.games_played = @ + 1]
    IN IF ScoreTruthy(game.player1_points) /\ ScoreTruthy(game.player2_points)
       THEN IF game.player2_points.v > game.player1_points.v
            THEN [played EXCEPT !.wins = @ + 1]
            ELSE [played EXCEPT !.losses = @ + 1]
       ELSE played

\* one pass of the loop over the games
TallyGame(game) ==
    /\ tally.games < MaxTallied
    /\ tally' =
           [op |-> "game", games |-> tally.games + 1, game |-> game,
            player_stats |->
                [pid \in {1, 2} |->
                    IF pid = game.player1_id
                    THEN CreditPlayer1(tally.player_stats[pid], game)
                    ELSE CreditPlayer2(tally.player_stats[pid], game)]]
    /\ UNCHANGED <<notStats, rankingVars, partnerVars>>

NextTally == \E game \in StoredSinglesGames : TallyGame(game)

\* ------------------------------ wins and losses of a singles game: properties
\* C30: a stored singles game whose two scores differ credits exactly one win
\* to the player with the higher score and exactly one loss to the other, and
\* nothing else, whatever the scores are, 0 included
C30_ScoreComparisonCreditsWinAndLoss ==
    [][LET game == tally'.game
           hi == IF game.player1_points.v > game.player2_points.v
                 THEN game.player1_id ELSE game.player2_id
           lo == 3 - hi
       IN (/\ tally'.games = tally.games + 1
           /\ game.player1_points.some /\ game.player2_points.some
           /\ game.player1_points.v # game.player2_points.v)
          => /\ tally'.player_stats[hi].wins = tally.player_stats[hi].wins + 1
             /\ tally'.player_stats[hi].losses = tally.player_stats[hi].losses
             /\ tally'.player_stats[lo].losses = tally.player_stats[lo].losses + 1
             /\ tally'.player_stats[lo].wins = tally.player_stats[lo].wins]_vars

\* --------------------------------------------- partners of a doubles bracket
\* extract_doubles_partners over the standings of a doubles bracket and the
\* event_match_details of its games.

\* at most MaxDoublesGames games of the bracket are stored
MaxDoublesGames == 2

DoublesPlayers == {1, 2, 3, 4}

\* the final rank of a player in the standings, or no standings row
DoublesStandings == [DoublesPlayers -> Opt({1, 2})]

\* a team as event_match_details lists it
Team(a, b) == <<a, b>>

\* the games: player 1 with some partner against two of the other players,
\* also with a player on both sides as inconsistent feeds have it
DoublesGames ==
    {[team1 |-> Team(1, k), team2 |-> Team(t[1], t[2])] :
        k \in DoublesPlayers \ {1},
        t \in {u \in (DoublesPlayers \ {1}) \X (DoublesPlayers \ {1}) :
                  u[1] # u[2]}}

DoublesGameLists == UNION {[1..n -> DoublesGames] : n \in 0..MaxDoublesGames}

rank_groups(standings, rank) == {p \in DOMAIN standings : standings[p] = Some(rank)}

\* the partners the standings give: the two players of a rank that exactly
\* two players have
StandingsPartners(standings) ==
    [p \in DOMAIN standings |->
        IF standings[p].some
           /\ Cardinality(rank_groups(standings, standings[p].v)) = 2
        THEN Some(CHOOSE q \in rank_groups(standings, standings[p].v) : q # p)
        ELSE Absent]

\* tuple(sorted([a, b]))
SortedPair(team) ==
    IF team[1] <= team[2] THEN <<team[1], team[2]>> ELSE <<team[2], team[1]>>

\* all_partner_pairs: the two teams of every game, in the order of the games
RECURSIVE all_partner_pairs(_)
all_partner_pairs(games) ==
    IF games = <<>> THEN <<>>
    ELSE all_partner_pairs(SubSeq(games, 1, Len(games) - 1))
             \o <<SortedPair(games[Len(games)].team1),
                  SortedPair(games[Len(games)].team2)>>

PairCount(pairs, pair) == Cardinality({k \in DOMAIN pairs : pairs[k] = pair})

FirstAt(pairs, pair) ==
    CHOOSE k \in DOMAIN pairs :
        pairs[k] = pair /\ \A j \in DOMAIN pairs : pairs[j] = pair => k <= j

\* Counter(all_partner_pairs).most_common(): the distinct pairs by descending
\* count, pairs of one count in the order of their first occurrence
RECURSIVE most_common(_, _)
most_common(pairs, done) ==
    LET left == Range(pairs) \ done
        next == CHOOSE x \in left :
                    \A y \in left :
                        \/ PairCount(pairs, x) > PairCount(pairs, y)
                        \/ /\ PairCount(pairs, x) = PairCount(pairs, y)
                           /\ FirstAt(pairs, x) <= FirstAt(pairs, y)
    IN IF left = {} THEN <<>>
       ELSE <<next>> \o most_common(pairs, done \cup {next})

\* the pair is assigned whatever the partners hold
AddPairUnchecked(partners, pair) ==
    [partners EXCEPT ![pair[1]] = Some(pair[2]), ![pair[2]] = Some(pair[1])]

\* a pair of the games is assigned if one of its players has no partner and
\* neither has another one
AddPair(partners, pair) ==
    IF /\ ~partners[pair[1]].some \/ ~partners[pair[2]].some
       /\ ~partners[pair[1]].some \/ partners[pair[1]] = Some(pair[2])
       /\ ~partners[pair[2]].some \/ partners[pair[2]] = Some(pair[1])
    THEN [partners EXCEPT ![pair[1]] = Some(pair[2]), ![pair[2]] = Some(pair[1])]
    ELSE partners

RECURSIVE AddPairs(_, _)
AddPairs(partners, pairs) ==
    IF pairs = <<>> THEN partners
    ELSE AddPairs(AddPair(partners, pairs[1]), SubSeq(pairs, 2, Len(pairs)))

extract_doubles_partners(standings, games) ==
    AddPairs(StandingsPartners(standings),
             most_common(all_partner_pairs(games), {}))

\* the standings and the games of a doubles bracket are indexed
StoreDoublesBracket(standings, games) ==
    /\ pairing.op = "none"
    /\ pairing' = [op |-> "stored", standings |-> standings, games |-> games,
                   partners |-> <<>>]
    /\ UNCHANGED <<notStats, rankingVars, tallyVars>>

ExtractDoublesPartners ==
    /\ pairing.op = "stored"
    /\ pairing' =
           [pairing EXCEPT !.op = "extracted",
                           !.partners = extract_doubles_partners(
                                            pairing.standings, pairing.games)]
    /\ UNCHANGED <<notStats, rankingVars, tallyVars>>

NextPartners ==
    \/ /\ pairing.op = "none"
       /\ \E standings \in DoublesStandings, games \in DoublesGameLists :
              StoreDoublesBracket(standings, games)
    \/ ExtractDoublesPartners

\* --------------------------------- partners of a doubles bracket: properties
\* the players a rank of the standings pairs
PairedByStandings == {p \in DoublesPlayers : StandingsPartners(pairing.standings)[p].some}

\* a and b are one team of a stored game
TeamInGames(a, b) ==
    \E k \in DOMAIN pairing.games :
        \/ SortedPair(pairing.games[k].team1) = SortedPair(Team(a, b))
        \/ SortedPair(pairing.games[k].team2) = SortedPair(Team(a, b))

\* C29: the two players of a final rank are each other's partner; a pair that
\* comes from the teams of the games has both players unpaired by the standings;
\* and partner(x) = y implies partner(y) = x, so nobody has two partners
C29_PartnersAreMutual ==
    pairing.op = "extracted" =>
        /\ \A a, b \in DoublesPlayers :
               (/\ a # b
                /\ pairing.standings[a].some
                /\ rank_groups(pairing.standings, pairing.standings[a].v) = {a, b})
               => (pairing.partners[a] = Some(b) /\ pairing.partners[b] = Some(a))
        /\ \A x \in DoublesPlayers \ PairedByStandings :
               pairing.partners[x].some =>
                   /\ pairing.partners[x].v \notin PairedByStandings
                   /\ TeamInGames(x, pairing.partners[x].v)
        /\ \A x \in DoublesPlayers :
               pairing.partners[x].some =>
                   pairing.partners[pairing.partners[x].v] = Some(x)

\* players 1 and 2 share rank 1 and are partners; 3 and 4 are paired by the
\* games alone, although a game also lists 2 and 3 as a team
C29_Witness ==
    /\ pairing.op = "extracted"
    /\ rank_groups(pairing.standings, 1) = {1, 2}
    /\ PairedByStandings = {1, 2}
    /\ TeamInGames(2, 3)
    /\ pairing.partners = <<Some(2), Some(1), Some(4), Some(3)>>

Init ==
    /\ InitEvent
    /\ InitCache
    /\ InitAgg
    /\ InitGames
    /\ InitFetch
    /\ InitRuns
    /\ InitFetcher
    /\ InitPlayerDataRun
    /\ InitCommit
    /\ InitProbe
    /\ InitEventsRun
    /\ InitFilter
    /\ InitRecords
    /\ InitStats

SpecEvent == Init /\ [][NextEvent]_vars

SpecCache == Init /\ [][NextCache]_vars

SpecAgg == Init /\ [][NextAgg]_vars

SpecGames == Init /\ [][NextGames]_vars

SpecFetch == Init /\ [][NextFetch]_vars

SpecSeason == InitSeason /\ [][NextSeason]_vars

SpecFetcher == Init /\ [][NextFetcher]_vars

SpecCommit == Init /\ [][NextCommit]_vars

SpecProbe == Init /\ [][NextProbe]_vars

SpecDiscover == Init /\ [][NextDiscover]_vars

SpecFilter == Init /\ [][NextFilter]_vars

SpecRecords == Init /\ [][NextRecords]_vars

SpecRanking == Init /\ [][NextRanking]_vars

SpecTally == Init /\ [][NextTally]_vars

SpecPartners == Init /\ [][NextPartners]_vars

SpecRuns == InitSeason /\ [][NextRuns]_vars /\ RunsFairness

SpecResume == InitSeason /\ [][NextResume]_vars

====
